---- MODULE Spec2Model ----
(***************************************************************************)
(* Workflow execution engine of SERVICE-HERO                               *)
(* (src/workflow_engine_enhanced.py, with the data types and the base      *)
(* IntegrationManager of src/workflow_engine.py).                          *)
(*                                                                         *)
(* Concurrency is asyncio's: a task runs without interruption until it     *)
(* awaits something that suspends: an integration handler, asyncio.sleep,  *)
(* a notification callback.  db_manager (src/database.py) runs sqlite3     *)
(* synchronously inside its coroutines, so awaiting it never suspends.     *)
(* No task is switched in while another is between two such points.        *)
(*                                                                         *)
(* Time is a clock of whole seconds, `now`, advanced by Tick.              *)
(***************************************************************************)
EXTENDS Integers, Sequences, FiniteSets, TLC

VARIABLES
    now,          \* datetime.now(), in seconds
    breakers,     \* the CircuitBreaker objects, by object identity
    cb_task,      \* tasks awaiting CircuitBreaker.call directly: where each stands
    streak,       \* direct breaker calls that failed in a row since the last success (or the start)
    streak_time,  \* when the last of them failed
    func_calls,   \* how many times the function wrapped by the breaker was invoked
    overlap,      \* TRUE once a direct breaker call began while another was in flight
    handlers,          \* IntegrationManager.handlers: service name -> handler object
    integrations,      \* IntegrationManager.integrations: service name -> stats
    circuit_breakers,  \* EnhancedIntegrationManager.circuit_breakers: service name -> breaker object
    retry_configs,     \* EnhancedIntegrationManager.retry_configs: service name -> RetryConfig
    im_call,           \* per task: its call of execute_integration_with_retry, if any
    registrations,     \* how many times register_integration was called
    im_calls,          \* how many direct calls of execute_integration_with_retry were begun
    templates,            \* EnhancedWorkflowEngine.templates: template id -> template
    executions,           \* EnhancedWorkflowEngine.executions: execution id -> WorkflowExecution
    execution_callbacks,  \* how many callbacks add_execution_callback has appended
    db,                   \* the executions table behind db_manager
    starter,              \* per execution: where its start_workflow call stands
    driver,               \* per execution: where its _execute_workflow_with_monitoring task stands
    notified,             \* per execution: the (callback, event) pairs delivered, in order
    action_calls,         \* per execution: the integration manager calls its Action steps made
    issued,               \* per execution: the persistence writes the engine has issued for its id
    db_down,              \* TRUE while every call of db_manager raises
    raising,              \* the callbacks (by position in the list) that raise when invoked
    last_call,            \* what the last call of start_workflow or get_execution_status gave its caller
    resolution            \* the last direct call of _replace_variables: its arguments and what it returned

cbvars == <<cb_task, streak, streak_time, func_calls, overlap>>
imvars == <<handlers, integrations, circuit_breakers, retry_configs, im_call,
            registrations, im_calls>>
envvars == <<db_down, raising, last_call, resolution>>
engvars == <<templates, executions, execution_callbacks, db, starter, driver,
             notified, action_calls, issued, envvars>>
vars == <<now, breakers, cbvars, imvars, engvars>>

-----------------------------------------------------------------------------
(* Bounds of the model                                                     *)

MaxTime == 62
NTasks == 2
MaxThreshold == 2
MaxCalls == 5
MaxRegistrations == 1
MaxIMCalls == 2
MaxCallbacks == 1
MaxEngineTime == 30
MaxStoreCallbacks == 2
MaxStoreExecutions == 1
MaxPathLen == 2
MaxReRegistrations == 3
MaxLoopResults == 4

Tasks == 1..NTasks

-----------------------------------------------------------------------------
(* CircuitBreaker                                                          *)

None == -1

\* A datetime the program stores and never reads back (started_at,
\* completed_at, last_used): the model keeps that it is set, not its value.
Stamp(t) == 0

DefaultFailureThreshold == 5
DefaultRecoveryTimeout == 60

CircuitBreaker(failure_threshold, recovery_timeout) ==
    [failure_threshold |-> failure_threshold,
     recovery_timeout  |-> recovery_timeout,
     failure_count     |-> 0,
     last_failure_time |-> None,
     state             |-> "closed"]

should_attempt_reset(b, t) ==
    IF b.last_failure_time = None
    THEN FALSE
    ELSE t - b.last_failure_time > b.recovery_timeout

\* call_rejects with the recovery test not strict (>= for >).
call_rejects_short(b, t) ==
    /\ b.state = "open"
    /\ ~(b.last_failure_time # None /\ t - b.last_failure_time >= b.recovery_timeout)

\* CircuitBreaker.call up to the invocation of func: does the call raise
\* "Circuit breaker is OPEN" instead of invoking func?
call_rejects(b, t) ==
    b.state = "open" /\ ~should_attempt_reset(b, t)

\* call_admit with the recovering breaker closed at once instead of half-open.
call_admit_closes(b, t) ==
    IF b.state = "open" /\ should_attempt_reset(b, t)
    THEN [b EXCEPT !.state = "closed"]
    ELSE b

\* CircuitBreaker.call up to the invocation of func: the breaker as the
\* admitted call leaves it when func starts.
call_admit(b, t) ==
    IF b.state = "open" /\ should_attempt_reset(b, t)
    THEN [b EXCEPT !.state = "half_open"]
    ELSE b

\* on_success closing the breaker without resetting the counter.
on_success_keeps_count(b) ==
    [b EXCEPT !.state = "closed"]

on_success(b) ==
    [b EXCEPT !.failure_count = 0, !.state = "closed"]

\* on_failure with the threshold test off by one (> for >=).
on_failure_late(b, t) ==
    LET count == b.failure_count + 1
    IN  [b EXCEPT !.failure_count = count,
                  !.last_failure_time = t,
                  !.state = IF count > b.failure_threshold THEN "open" ELSE @]

on_failure(b, t) ==
    LET count == b.failure_count + 1
    IN  [b EXCEPT !.failure_count = count,
                  !.last_failure_time = t,
                  !.state = IF count >= b.failure_threshold THEN "open" ELSE @]

-----------------------------------------------------------------------------
(* Values of step configurations and contexts, and the Variable Resolver   *)
(* (_replace_variables, _resolve_value)                                    *)
(*                                                                         *)
(* A string is the sequence of its characters, where a run of characters   *)
(* other than "{", "}", ".", ">" and white space is written as one         *)
(* element.                                                                *)

Value(kind, chars, keys, vals, num) ==
    [kind |-> kind, chars |-> chars, keys |-> keys, vals |-> vals, num |-> num]

Str(chars) == Value("str", chars, <<>>, <<>>, 0)
Number(n) == Value("number", <<>>, <<>>, <<>>, n)
Bool(b) == Value("bool", <<>>, <<>>, <<>>, IF b THEN 1 ELSE 0)
\* A dict: its keys in insertion order, and the value of each.
Dict(keys, vals) == Value("dict", <<>>, keys, vals, 0)
List(items) == Value("list", <<>>, <<>>, items, 0)

EmptyDict == Dict(<<>>, <<>>)

\* `key in d` and d[key], for a dict d.
has_key(d, key) == \E i \in 1..Len(d.keys) : d.keys[i] = key

get_item(d, key) == d.vals[CHOOSE i \in 1..Len(d.keys) : d.keys[i] = key]

startswith(chars, prefix) ==
    Len(chars) >= Len(prefix) /\ SubSeq(chars, 1, Len(prefix)) = prefix

endswith(chars, suffix) ==
    Len(chars) >= Len(suffix)
        /\ SubSeq(chars, Len(chars) - Len(suffix) + 1, Len(chars)) = suffix

RECURSIVE lstrip(_)
lstrip(chars) ==
    IF chars # <<>> /\ Head(chars) = " " THEN lstrip(Tail(chars)) ELSE chars

RECURSIVE rstrip(_)
rstrip(chars) ==
    IF chars # <<>> /\ chars[Len(chars)] = " "
    THEN rstrip(SubSeq(chars, 1, Len(chars) - 1))
    ELSE chars

\* str.strip()
strip(chars) == rstrip(lstrip(chars))

\* str.split(sep): the pieces between the separators, empty ones included.
RECURSIVE split_from(_, _, _)
split_from(chars, sep, piece) ==
    IF chars = <<>> THEN <<piece>>
    ELSE IF Head(chars) = sep
    THEN <<piece>> \o split_from(Tail(chars), sep, <<>>)
    ELSE split_from(Tail(chars), sep, Append(piece, Head(chars)))

split(chars, sep) == split_from(chars, sep, <<>>)

\* The loop of lines 459-463 from the i-th part on.
RECURSIVE resolve_parts(_, _, _, _)
resolve_parts(parts, i, value, variable_name) ==
    IF i > Len(parts) THEN value
    ELSE IF value.kind = "dict" /\ has_key(value, parts[i])
    THEN resolve_parts(parts, i + 1, get_item(value, parts[i]), variable_name)
    ELSE Str(variable_name)

\* Lines 454-465.
resolve_value(variable_name, context) ==
    resolve_parts(split(variable_name, "."), 1, context, variable_name)

\* Lines 442-452.  Line 448 takes a string that starts with "{{" and ends
\* with "}}" for a placeholder, line 449 takes data[2:-2].strip() for its
\* variable name.
RECURSIVE replace_variables(_, _)
replace_variables(data, context) ==
    IF data.kind = "dict"
    THEN Dict(data.keys,
              [i \in 1..Len(data.vals) |-> replace_variables(data.vals[i], context)])
    ELSE IF data.kind = "list"
    THEN List([i \in 1..Len(data.vals) |-> replace_variables(data.vals[i], context)])
    ELSE IF /\ data.kind = "str"
            /\ startswith(data.chars, <<"{", "{">>)
            /\ endswith(data.chars, <<"}", "}">>)
    THEN resolve_value(strip(SubSeq(data.chars, 3, Len(data.chars) - 2)), context)
    ELSE data

\* `c in chars`
contains(chars, c) == \E i \in 1..Len(chars) : chars[i] = c

\* The numerals of the strings of this model, which have no sign, point or
\* exponent, and the numbers float() makes of them.
NumeralValue == ("3" :> 3) @@ ("5" :> 5)

\* float(value) raises: ValueError for a string that is no numeral once its
\* white space is stripped, TypeError for a dict or a list.
float_raises(value) ==
    CASE value.kind = "str" ->
            ~(/\ Len(strip(value.chars)) = 1
              /\ strip(value.chars)[1] \in DOMAIN NumeralValue)
      [] value.kind \in {"number", "bool"} -> FALSE
      [] OTHER -> TRUE

\* float(value) where it does not raise.
float(value) ==
    IF value.kind = "str" THEN NumeralValue[strip(value.chars)[1]] ELSE value.num

-----------------------------------------------------------------------------
(* RetryConfig, and the integration manager's tables                       *)

Services == {"twilio", "sendgrid"}

DefaultMaxAttempts == 3
DefaultBaseDelay == 1
DefaultMaxDelay == 60
DefaultExponentialBase == 2

RetryConfig(max_attempts, base_delay, jitter) ==
    [max_attempts     |-> max_attempts,
     base_delay       |-> base_delay,
     max_delay        |-> DefaultMaxDelay,
     exponential_base |-> DefaultExponentialBase,
     jitter           |-> jitter]

\* The handlers callers register: one that always returns, one that always
\* raises, and ones that raise on their first `fails` invocations and return
\* after that (src/test_integration.py, 149-160, with fails = 2); `calls` is
\* the handler's own count of its invocations.
FlakyFailures == 2

Handler(kind, fails) == [kind |-> kind, fails |-> fails, calls |-> 0]

NoHandler == Handler("absent", 0)

NoStats == [status |-> "absent", last_used |-> None, success_count |-> 0, error_count |-> 0]

Registered(s) == handlers[s].kind # "absent"

\* What the handler h does when invoked, h.calls counting this invocation.
handler_outcome(h) ==
    CASE h.kind = "ok"    -> "ok"
      [] h.kind = "fail"  -> "fail"
      [] h.kind = "flaky" -> IF h.calls <= h.fails THEN "fail" ELSE "ok"

\* What the handler returns when it returns (src/test_integration.py, 155-160).
handler_return(h) == [status |-> "sent", attempt |-> h.calls]

RECURSIVE Pow(_, _)
Pow(b, e) == IF e = 0 THEN 1 ELSE b * Pow(b, e - 1)

\* Lines 132-135: the backoff before the retry that follows attempt (0-based).
backoff_delay(cfg, attempt) ==
    LET delay == cfg.base_delay * Pow(cfg.exponential_base, attempt)
    IN  IF delay <= cfg.max_delay THEN delay ELSE cfg.max_delay

\* Lines 137-142: delay *= 0.5 + random() * 0.5 when jitter is set.  On a clock
\* of whole seconds a sleep of x seconds ends at the first second >= x.
sleep_lengths(cfg, attempt) ==
    LET d == backoff_delay(cfg, attempt)
    IN  IF cfg.jitter THEN ((d + 1) \div 2)..d ELSE {d}

\* last_attempt giving up one attempt early.
last_attempt_early(cfg, attempt) == attempt >= cfg.max_attempts - 2

\* Line 126: was this the last attempt?
last_attempt(cfg, attempt) == attempt = cfg.max_attempts - 1

\* count_success leaving success_count as it was.
count_success_forgets(stats, s, t) ==
    [stats EXCEPT ![s].last_used = Stamp(t)]

\* Lines 118-119.
count_success(stats, s, t) ==
    [stats EXCEPT ![s].last_used = Stamp(t), ![s].success_count = @ + 1]

\* count_error writing back a count it read before other failures were
\* counted: the increments after the first one are lost.
count_error_stale(stats, s) ==
    [stats EXCEPT ![s].error_count = IF @ = 0 THEN 1 ELSE @]

\* Line 124.
count_error(stats, s) ==
    [stats EXCEPT ![s].error_count = @ + 1]

NoCall ==
    [pc |-> "none", service |-> "none", breaker |-> 0,
     config |-> RetryConfig(DefaultMaxAttempts, DefaultBaseDelay, TRUE),
     attempt |-> 0, outcome |-> "none", data |-> [status |-> "none", attempt |-> 0],
     wake |-> 0, result |-> [success |-> FALSE],
     invoked |-> 0, rejected |-> 0, alone |-> TRUE, swapped |-> FALSE,
     params |-> EmptyDict,
     start |-> [breaker |-> CircuitBreaker(DefaultFailureThreshold, DefaultRecoveryTimeout),
                stats |-> NoStats, handler |-> NoHandler]]

Active(f) == f.pc \in {"in_handler", "sleeping"}

InitManager ==
    /\ handlers = [s \in Services |-> NoHandler]
    /\ integrations = [s \in Services |-> NoStats]
    /\ circuit_breakers = [s \in Services |-> 0]
    /\ retry_configs = [s \in Services |-> RetryConfig(DefaultMaxAttempts, DefaultBaseDelay, TRUE)]
    /\ im_call = [t \in Tasks |-> NoCall]
    /\ registrations = 0
    /\ im_calls = 0

-----------------------------------------------------------------------------
(* EnhancedWorkflowEngine: data                                            *)

ExecIds == Tasks

\* The id of an execution that an earlier run of the program left in the
\* database file: ids are uuid4 strings, so no new execution gets it.
StoredIds == {0}

AllIds == ExecIds \cup StoredIds

TemplateIds == {"quick_dispatch", "delayed_follow_up"}

\* The ids of the templates that exercise the step handlers and the choice
\* of the next step.
StepTemplateIds ==
    {"branching", "back_jump", "no_service", "unknown_type", "conditions",
     "self_loop", "back_cycle", "threading"}

NoService == "none"

NoError == [kind |-> "none"]

\* step.config with the defaults the handlers read it with (config.get).
DefaultConfig ==
    [event |-> "manual", service |-> NoService, action |-> "send",
     params |-> EmptyDict,
     seconds |-> 0, minutes |-> 0, hours |-> 0, condition |-> <<"true">>]

\* "{{customer_phone}}"
CustomerPhoneVariable == Str(<<"{", "{", "customer_phone", "}", "}">>)

\* The params of the dispatch_sms step of src/test_integration.py, the
\* message cut short: {"to": "{{customer_phone}}", "message": "Emergency
\* received at {{location}}."}
DispatchParams ==
    Dict(<< <<"to">>, <<"message">> >>,
         << CustomerPhoneVariable,
            Str(<<"Emergency", " ", "received", " ", "at", " ",
                  "{", "{", "location", "}", "}", ".">>) >>)

\* The params of its follow_up step, the message cut short.
FollowUpParams ==
    Dict(<< <<"to">>, <<"message">> >>,
         << CustomerPhoneVariable, Str(<<"Your", " ", "plumber">>) >>)

WorkflowStep(id, type, config, next_steps) ==
    [id |-> id, type |-> type, config |-> config, next_steps |-> next_steps]

WorkflowTemplate(id, steps) == [id |-> id, steps |-> steps]

NoTemplate == WorkflowTemplate("none", <<>>)

\* [Trigger, Action, Delay(0 seconds), Action], no explicit successors.
QuickDispatch ==
    WorkflowTemplate("quick_dispatch",
        << WorkflowStep("trigger", "trigger",
                [DefaultConfig EXCEPT !.event = "emergency_request"], <<>>),
           WorkflowStep("dispatch_sms", "action",
                [DefaultConfig EXCEPT !.service = "twilio",
                                      !.params = DispatchParams], <<>>),
           WorkflowStep("confirmation_delay", "delay", DefaultConfig, <<>>),
           WorkflowStep("follow_up", "action",
                [DefaultConfig EXCEPT !.service = "twilio",
                                      !.params = FollowUpParams], <<>>) >>)

\* Steps chained by explicit successors, with a delay that suspends: the
\* trigger, the delay and the follow-up of the template of
\* src/test_integration.py, the delay 30 seconds here and 2 minutes there.
DelayedFollowUp ==
    WorkflowTemplate("delayed_follow_up",
        << WorkflowStep("trigger", "trigger",
                [DefaultConfig EXCEPT !.event = "emergency_request"],
                <<"confirmation_delay">>),
           WorkflowStep("confirmation_delay", "delay",
                [DefaultConfig EXCEPT !.seconds = 30], <<"follow_up">>),
           WorkflowStep("follow_up", "action",
                [DefaultConfig EXCEPT !.service = "twilio",
                                      !.params = FollowUpParams], <<>>) >>)

TemplateInputs == {QuickDispatch, DelayedFollowUp}

\* The trigger data of test_complete_plumber_workflow, two keys of it.
TriggerData ==
    Dict(<< <<"customer_phone">>, <<"location">> >>,
         << Str(<<"+15551234567">>), Str(<<"123", " ", "Main", " ", "Street">>) >>)

\* Line 192: context={"trigger_data": trigger_data}
context_of(trigger_data) == Dict(<< <<"trigger_data">> >>, <<trigger_data>>)

UserId == "1"

NoExecution ==
    [status |-> "absent", template_id |-> "none", user_id |-> UserId,
     started_at |-> None, completed_at |-> None, current_step_id |-> "none",
     context |-> context_of(TriggerData), step_results |-> <<>>,
     error_message |-> NoError]

\* Lines 187-193.
WorkflowExecution(template_id, user_id, trigger_data) ==
    [NoExecution EXCEPT !.status = "pending", !.template_id = template_id,
                        !.user_id = user_id,
                        !.context = context_of(trigger_data)]

\* StepResult, without its timestamps and its retry_count (which stays 0).
StepResult(step_id, status, output, error) ==
    [step_id |-> step_id, status |-> status, output |-> output, error |-> error]

NoOutput == [kind |-> "none"]

NoRecord ==
    [status |-> "absent", trigger_data |-> TriggerData, step_results |-> <<>>,
     current_step_id |-> "none", error_message |-> NoError,
     started_at |-> None, completed_at |-> None]

\* db_manager.create_execution raises: the database is out of order, or the
\* id is there already (id is the PRIMARY KEY).  get_cursor rolls back.
create_raises(table, id) ==
    db_down \/ table[id].status # "absent"

\* Lines 199-207 and db_manager.create_execution: the row inserted.  What it
\* raises is caught at lines 212-213.
create_execution(table, id, ex, t) ==
    IF create_raises(table, id)
    THEN table
    ELSE [table EXCEPT ![id] =
            [NoRecord EXCEPT !.status = ex.status,
                             !.trigger_data = get_item(ex.context, <<"trigger_data">>),
                             !.started_at = Stamp(t)]]

\* json.dumps(value) of db_manager.update_execution for step_results: each
\* element is the model_dump() of a StepResult (line 246), whose started_at
\* is a datetime, which json.dumps does not encode: TypeError.
json_dumps_raises(step_results) == step_results # <<>>

\* db_manager.update_execution raises.  get_cursor rolls back.
update_raises(ex) ==
    db_down \/ json_dumps_raises(ex.step_results)

\* Lines 281-287: the dict _update_execution_in_db hands to db_manager.
updates(ex) ==
    [status |-> ex.status, step_results |-> ex.step_results,
     current_step_id |-> ex.current_step_id, error_message |-> ex.error_message,
     completed_at |-> ex.completed_at]

\* _update_execution_in_db and db_manager.update_execution: UPDATE ... WHERE
\* id = ?, which changes nothing when the row is not there.  What it raises
\* is caught at lines 290-291.
update_execution_in_db(table, id, ex) ==
    IF update_raises(ex) \/ table[id].status = "absent"
    THEN table
    ELSE [table EXCEPT ![id].status = updates(ex).status,
                       ![id].step_results = updates(ex).step_results,
                       ![id].current_step_id = updates(ex).current_step_id,
                       ![id].error_message = updates(ex).error_message,
                       ![id].completed_at = updates(ex).completed_at]

\* start_workflow issuing no create.
issue_create_skipped(log, id, raised) == log

\* Line 210: start_workflow awaits db_manager.create_execution.
issue_create(log, id, raised) ==
    [log EXCEPT ![id] =
        [@ EXCEPT !.first = IF @ = "none" THEN "create" ELSE @,
                  !.creates = @ + 1,
                  !.create_raised = @ \/ raised]]

\* Line 289: _update_execution_in_db awaits db_manager.update_execution.
issue_update(log, id, ex, raised) ==
    [log EXCEPT ![id] =
        [@ EXCEPT !.first = IF @ = "none" THEN "update" ELSE @,
                  !.updates = @ + 1,
                  !.update_raised = @ \/ raised,
                  !.last = updates(ex)]]

\* Lines 476-488: the WorkflowExecution built from the row of the table.
\* self.templates is keyed by template id and workflow_id is an integer, so
\* the template id is 'unknown'; context is the trigger data itself.
reconstruct(row) ==
    [NoExecution EXCEPT !.status = row.status,
                        !.template_id = "unknown",
                        !.started_at = row.started_at,
                        !.completed_at = row.completed_at,
                        !.current_step_id = row.current_step_id,
                        !.context = row.trigger_data,
                        !.step_results = row.step_results,
                        !.error_message = row.error_message]

\* The loop over the callbacks ending at the first callback that raises.
invoked_callbacks_until_raise ==
    {i \in 1..execution_callbacks : \A j \in raising : i <= j}

\* The callbacks of the list that are invoked for one event: all of them,
\* since lines 173-176 catch what a callback raises inside the loop.
invoked_callbacks == 1..execution_callbacks

\* The loop of lines 172-176 from callback `first` to callback `last` of the
\* list: each of them is invoked with the event, in the order of the list.
deliver(log, id, event, first, last) ==
    LET to == {i \in invoked_callbacks : first <= i /\ i <= last}
    IN  [log EXCEPT ![id] =
            @ \o [n \in 1..Cardinality(to) |->
                    [callback |-> first + n - 1, event |-> event,
                     raised |-> (first + n - 1) \in raising]]]

\* _notify_execution_change: every callback, in the order of the list.
notify(log, id, event) == deliver(log, id, event, 1, execution_callbacks)

\* The index in steps of the first step with this id, 0 if there is none.
step_index(steps, id) ==
    LET found == {i \in 1..Len(steps) : steps[i].id = id}
    IN  IF found = {} THEN 0
        ELSE CHOOSE i \in found : \A j \in found : i <= j

\* _get_next_step going two steps ahead in template order.
get_next_step_skips(current, template) ==
    LET steps == template.steps
        step == steps[current]
        at == step_index(steps, step.id)
    IN  IF step.next_steps # <<>>
        THEN step_index(steps, step.next_steps[1])
        ELSE IF at >= 1 /\ at + 1 < Len(steps) THEN at + 2 ELSE 0

\* _get_next_step without regard to explicit successors.
get_next_step_in_order(current, template) ==
    IF current < Len(template.steps) THEN current + 1 ELSE 0

\* Lines 429-440: the step to run after steps[current], 0 for None.
get_next_step(current, template) ==
    LET steps == template.steps
        step == steps[current]
        at == step_index(steps, step.id)
    IN  IF step.next_steps # <<>>
        THEN step_index(steps, step.next_steps[1])
        ELSE IF at >= 1 /\ at < Len(steps) THEN at + 1 ELSE 0

\* Lines 331-342.
handle_trigger(step, ex) ==
    [event |-> step.config.event,
     data |-> IF has_key(ex.context, <<"trigger_data">>)
              THEN get_item(ex.context, <<"trigger_data">>)
              ELSE EmptyDict]

\* Line 372.
total_seconds(step) ==
    step.config.seconds + step.config.minutes * 60 + step.config.hours * 3600

\* Lines 366-381, the value returned.
handle_delay(step) == [delay_seconds |-> total_seconds(step)]

\* Lines 394-396: the operands of a comparison, before float() is applied.
condition_left(step, ex) ==
    resolve_value(strip(split(step.config.condition, ">")[1]), ex.context)

condition_right(step) == Str(strip(split(step.config.condition, ">")[2]))

\* Lines 396-397 raise: an operand is no number.
condition_raises(step, ex) ==
    /\ step.config.condition \notin {<<"true">>, <<"false">>}
    /\ contains(step.config.condition, ">")
    /\ float_raises(condition_left(step, ex)) \/ float_raises(condition_right(step))

\* A condition string that is none of the three cases evaluating to false.
handle_condition_default_false(step, ex) ==
    LET condition == step.config.condition
    IN  [condition |-> condition,
         result |-> IF condition = <<"true">> THEN TRUE
                    ELSE IF condition = <<"false">> THEN FALSE
                    ELSE IF contains(condition, ">")
                    THEN float(condition_left(step, ex)) > float(condition_right(step))
                    ELSE FALSE]

\* Lines 383-408, the value returned when nothing raises.
handle_condition(step, ex) ==
    LET condition == step.config.condition
    IN  [condition |-> condition,
         result |-> IF condition = <<"true">> THEN TRUE
                    ELSE IF condition = <<"false">> THEN FALSE
                    ELSE IF contains(condition, ">")
                    THEN float(condition_left(step, ex)) > float(condition_right(step))
                    ELSE TRUE]

\* Lines 410-427.
handle_webhook(step) == [status_code |-> 200, response |-> [success |-> TRUE]]

\* The Action's output being the manager's whole result.
action_output_whole(result) == result

\* Line 364.
action_output(result) == result.data

\* Line 362: "Action failed after {attempts} attempts: {error}".
action_error(result) ==
    [kind |-> "action_failed", attempts |-> result.attempts, error |-> result.error]

\* The loop never leaving on a failed step.
step_failed_never(result) == FALSE

\* The loop leaving only on a failed integration call.
step_failed_of_calls_only(result) ==
    result.status = "failed" /\ result.error.kind = "action_failed"

\* Line 253.
step_failed(result) == result.status = "failed"

\* Completed whatever the status.
marks_completed_always(status) == TRUE

\* Completed after a failure too.
marks_completed_after_failure(status) == status \in {"running", "failed"}

\* Line 261.
marks_completed(status) == status = "running"

NoDriver == [pc |-> "none", template |-> NoTemplate, step |-> 0, wake |-> 0]

\* What a call of start_workflow(template_id) or get_execution_status(id)
\* gave its caller: an exception or a value, and whether the database was read.
CallResult(op, template_id, id, result, read, execution) ==
    [op |-> op, template_id |-> template_id, id |-> id, result |-> result,
     read |-> read, execution |-> execution]

\* _replace_variables(data, context) called `calls` times over: on data, then
\* on what it returned.
Resolution(calls, data, context, once, twice) ==
    [calls |-> calls, data |-> data, context |-> context, once |-> once,
     twice |-> twice]

\* A new engine over the table `rows` of the database file.
InitEngineOver(rows) ==
    LET \* The writes issued for one execution id: which kind came first, how many
        \* of each kind, whether one raised, and the dict of the last update.
        NoWrites ==
            [first |-> "none", creates |-> 0, updates |-> 0, create_raised |-> FALSE,
             update_raised |-> FALSE,
             last |-> [status |-> "none", step_results |-> <<>>, current_step_id |-> "none",
                       error_message |-> NoError, completed_at |-> None]]
    IN  /\ templates = [id \in TemplateIds \cup StepTemplateIds |-> NoTemplate]
        /\ executions = [e \in AllIds |-> NoExecution]
        /\ execution_callbacks = 0
        /\ db = rows
        /\ starter = [e \in ExecIds |-> "none"]
        /\ driver = [e \in ExecIds |-> NoDriver]
        /\ notified = [e \in ExecIds |-> <<>>]
        /\ action_calls = [e \in ExecIds |-> <<>>]
        /\ issued = [e \in ExecIds |-> NoWrites]
        /\ db_down = FALSE
        /\ raising = {}
        /\ last_call = CallResult("none", "none", None, "none", FALSE, NoExecution)
        /\ resolution = Resolution(0, EmptyDict, EmptyDict, EmptyDict, EmptyDict)

\* A new engine over a new database.
InitEngine == InitEngineOver([e \in AllIds |-> NoRecord])

-----------------------------------------------------------------------------
(* The clock                                                               *)

Tick ==
    /\ \E d \in {30, 31} :
          /\ now + d <= MaxTime
          /\ now' = now + d
    /\ UNCHANGED <<breakers, cbvars, imvars, engvars>>

-----------------------------------------------------------------------------
(* Tasks that call one CircuitBreaker directly, as                         *)
(* TestCircuitBreaker does: breaker = CircuitBreaker(T, R), then           *)
(* await breaker.call(func) from one or several tasks.                     *)

TheBreaker == 1

IdleTask(res) == [pc |-> "idle", probe |-> FALSE, during_probe |-> FALSE, res |-> res]

InFlight == {u \in Tasks : cb_task[u].pc = "in_func"}

InitCB ==
    /\ now = 0
    /\ \E T \in 1..MaxThreshold, R \in {30, 60} :
          breakers = [b \in {TheBreaker} |-> CircuitBreaker(T, R)]
    /\ cb_task = [t \in Tasks |-> IdleTask("none")]
    /\ streak = 0
    /\ streak_time = None
    /\ func_calls = 0
    /\ overlap = FALSE
    /\ InitManager
    /\ InitEngine

\* breaker.call(func) raises at line 58: func is not invoked.
CBCallRejected(t) ==
    LET b == breakers[TheBreaker] IN
    /\ cb_task[t].pc = "idle"
    /\ call_rejects(b, now)
    /\ cb_task' = [cb_task EXCEPT ![t] = IdleTask("rejected")]
    /\ overlap' = (overlap \/ InFlight # {})
    /\ UNCHANGED <<engvars, imvars, now, breakers, streak, streak_time, func_calls>>

\* breaker.call(func) reaches line 61: func is invoked and the task awaits it.
CBCallAdmitted(t) ==
    LET b == breakers[TheBreaker] IN
    /\ cb_task[t].pc = "idle"
    /\ func_calls < MaxCalls
    /\ ~call_rejects(b, now)
    /\ breakers' = [breakers EXCEPT ![TheBreaker] = call_admit(b, now)]
    /\ func_calls' = func_calls + 1
    /\ cb_task' = [cb_task EXCEPT ![t] =
            [pc |-> "in_func",
             probe |-> (b.state = "open"),
             during_probe |-> \E u \in Tasks :
                                 cb_task[u].pc = "in_func" /\ cb_task[u].probe,
             res |-> "none"]]
    /\ overlap' = (overlap \/ InFlight # {})
    /\ UNCHANGED <<engvars, imvars, now, streak, streak_time>>

\* func returns: lines 62-63.
CBFuncSucceeds(t) ==
    /\ cb_task[t].pc = "in_func"
    /\ breakers' = [breakers EXCEPT ![TheBreaker] = on_success(@)]
    /\ cb_task' = [cb_task EXCEPT ![t] = IdleTask("ok")]
    /\ streak' = 0
    /\ streak_time' = None
    /\ UNCHANGED <<engvars, imvars, now, func_calls, overlap>>

\* func raises: lines 64-66.
CBFuncFails(t) ==
    /\ cb_task[t].pc = "in_func"
    /\ breakers' = [breakers EXCEPT ![TheBreaker] = on_failure(@, now)]
    /\ cb_task' = [cb_task EXCEPT ![t] = IdleTask("fail")]
    /\ streak' = streak + 1
    /\ streak_time' = now
    /\ UNCHANGED <<engvars, imvars, now, func_calls, overlap>>

NextCB ==
    \/ Tick
    \/ \E t \in Tasks : CBCallRejected(t)
    \/ \E t \in Tasks : CBCallAdmitted(t)
    \/ \E t \in Tasks : CBFuncSucceeds(t)
    \/ \E t \in Tasks : CBFuncFails(t)

SpecCB == InitCB /\ [][NextCB]_vars

-----------------------------------------------------------------------------
(* Claims about the CircuitBreaker, checked under SpecCB                   *)

Sequential == ~overlap /\ ~overlap'

BeginsCall(t) == cb_task[t].pc = "idle" /\ cb_task'[t] # cb_task[t]

EndsCall(t, res) == cb_task[t].pc = "in_func" /\ cb_task'[t].res = res

\* C2: a breaker with failure_threshold T that starts Closed with counter 0
\* and is called sequentially is still Closed after each failing call that is
\* not yet the T-th in a row, and Open right after the T-th; a call begun no
\* more than recovery_timeout after that T-th failure raises the
\* circuit-open error and the wrapped function is not invoked.
C2_OpensAtThreshold ==
    [][\A t \in Tasks :
        LET T == breakers[TheBreaker].failure_threshold
            R == breakers[TheBreaker].recovery_timeout
        IN  /\ (Sequential /\ EndsCall(t, "fail") /\ streak' < T)
                    => breakers'[TheBreaker].state = "closed"
            /\ (Sequential /\ EndsCall(t, "fail") /\ streak' = T)
                    => breakers'[TheBreaker].state = "open"
            /\ (Sequential /\ InFlight = {} /\ BeginsCall(t)
                    /\ streak = T /\ now - streak_time <= R)
                    => /\ cb_task'[t].pc = "idle"
                       /\ cb_task'[t].res = "rejected"
                       /\ func_calls' = func_calls
                       /\ breakers' = breakers
    ]_vars

\* C2 witness: with T = 2, two failing calls in a row opened the breaker
\* and the call after them was rejected; the function ran twice.
C2_Witness ==
    /\ ~overlap
    /\ breakers[TheBreaker].failure_threshold = 2
    /\ breakers[TheBreaker].state = "open"
    /\ streak = 2
    /\ func_calls = 2
    /\ \E t \in Tasks : cb_task[t].res = "rejected"

\* C3: on an Open breaker called sequentially, a call begun more than
\* recovery_timeout after last_failure_time is admitted (the function is
\* invoked) with the state set to HalfOpen; when that call succeeds the
\* breaker is Closed with failure counter 0; when it fails the breaker is
\* Open again and last_failure_time is the time of that failure.
C3_HalfOpenProbe ==
    [][\A t \in Tasks :
        LET b == breakers[TheBreaker]
            c == breakers'[TheBreaker]
        IN  /\ (Sequential /\ InFlight = {} /\ BeginsCall(t) /\ b.state = "open"
                    /\ b.last_failure_time # None
                    /\ now - b.last_failure_time > b.recovery_timeout)
                    => /\ cb_task'[t].pc = "in_func"
                       /\ func_calls' = func_calls + 1
                       /\ c.state = "half_open"
            /\ (Sequential /\ cb_task[t].probe /\ EndsCall(t, "ok"))
                    => c.state = "closed" /\ c.failure_count = 0
            /\ (Sequential /\ cb_task[t].probe /\ EndsCall(t, "fail"))
                    => c.state = "open" /\ c.last_failure_time = now
    ]_vars

\* C3 witness: sequential calls opened the breaker, a probe was admitted
\* after the timeout and failed, and the breaker is Open with the timer
\* refreshed to that later failure.
C3_Witness ==
    /\ ~overlap
    /\ InFlight = {}
    /\ streak = breakers[TheBreaker].failure_threshold + 1
    /\ breakers[TheBreaker].state = "open"
    /\ breakers[TheBreaker].last_failure_time = now
    /\ now > breakers[TheBreaker].recovery_timeout

\* C4: while the HalfOpen probe's invocation is in flight, no other call on
\* the breaker is admitted to the wrapped function.
C4_OnlyOneProbe ==
    \A t \in Tasks : ~(cb_task[t].pc = "in_func" /\ cb_task[t].during_probe)

-----------------------------------------------------------------------------
(* EnhancedIntegrationManager                                              *)

\* register_integration that keeps the stats of a name already registered.
register_integration_keeps_stats(name, handler, cfg) ==
    /\ registrations' = registrations + 1
    /\ handlers' = [handlers EXCEPT ![name] = handler]
    /\ integrations' = [integrations EXCEPT ![name] =
            IF Registered(name) THEN @
            ELSE [status |-> "connected", last_used |-> None,
                  success_count |-> 0, error_count |-> 0]]
    /\ breakers' = Append(breakers,
            CircuitBreaker(DefaultFailureThreshold, DefaultRecoveryTimeout))
    /\ circuit_breakers' = [circuit_breakers EXCEPT ![name] = Len(breakers) + 1]
    /\ retry_configs' = [retry_configs EXCEPT ![name] = cfg]
    /\ im_call' = [t \in Tasks |->
            IF Active(im_call[t]) /\ im_call[t].service = name
            THEN [im_call[t] EXCEPT !.alone = FALSE, !.swapped = TRUE]
            ELSE im_call[t]]
    /\ UNCHANGED <<now, cbvars, im_calls, engvars>>

\* Lines 98-102, with the base class's lines 95-104: the handler, the stats,
\* the breaker and the retry policy of `name` are all assigned anew.  A call
\* in flight keeps the breaker it read at line 110.
register_integration(name, handler, cfg) ==
    /\ registrations' = registrations + 1
    /\ handlers' = [handlers EXCEPT ![name] = handler]
    /\ integrations' = [integrations EXCEPT ![name] =
            [status |-> "connected", last_used |-> None,
             success_count |-> 0, error_count |-> 0]]
    /\ breakers' = Append(breakers,
            CircuitBreaker(DefaultFailureThreshold, DefaultRecoveryTimeout))
    /\ circuit_breakers' = [circuit_breakers EXCEPT ![name] = Len(breakers) + 1]
    /\ retry_configs' = [retry_configs EXCEPT ![name] = cfg]
    /\ im_call' = [t \in Tasks |->
            IF Active(im_call[t]) /\ im_call[t].service = name
            THEN [im_call[t] EXCEPT !.alone = FALSE, !.swapped = TRUE]
            ELSE im_call[t]]
    /\ UNCHANGED <<now, cbvars, im_calls, engvars>>

\* Lines 123-142, after the stats update: the attempt of frame f failed with
\* error err; return the failure or sleep before the next attempt.
after_failure(t, f, err, calls) ==
    IF last_attempt(f.config, f.attempt)
    THEN im_call' = [calls EXCEPT ![t] =
            [f EXCEPT !.pc = "returned", !.wake = 0,
                      !.result = [success |-> FALSE, error |-> err,
                                  attempts |-> f.config.max_attempts]]]
    ELSE \E d \in sleep_lengths(f.config, f.attempt) :
            im_call' = [calls EXCEPT ![t] =
                [f EXCEPT !.pc = "sleeping",
                          !.wake = IF d = 0 THEN 0 ELSE now + d]]

\* Lines 112-115 and, when the breaker rejects, 123-142: one turn of the loop
\* up to the point where the task suspends (in the handler or in the sleep)
\* or returns.
attempt_step(t, f, calls) ==
    LET b == breakers[f.breaker]
        s == f.service
        h == [handlers[s] EXCEPT !.calls = @ + 1]
    IN  IF call_rejects(b, now)
        THEN /\ integrations' = count_error(integrations, s)
             /\ after_failure(t, [f EXCEPT !.rejected = @ + 1], "circuit_open", calls)
             /\ UNCHANGED <<breakers, handlers>>
        ELSE /\ breakers' = [breakers EXCEPT ![f.breaker] = call_admit(b, now)]
             /\ handlers' = [handlers EXCEPT ![s] = h]
             /\ im_call' = [calls EXCEPT ![t] =
                    [f EXCEPT !.pc = "in_handler", !.wake = 0,
                              !.outcome = handler_outcome(h),
                              !.data = handler_return(h),
                              !.invoked = @ + 1]]
             /\ UNCHANGED integrations

\* Lines 104-115: task t calls execute_integration_with_retry(s, action,
\* params); params is what every attempt hands to the handler (line 115).
execute_integration_with_retry(t, s, params) ==
    /\ IF ~Registered(s)
       THEN /\ im_call' = [im_call EXCEPT ![t] =
                    [NoCall EXCEPT !.pc = "raised", !.service = s]]
            /\ UNCHANGED <<breakers, handlers, integrations>>
       ELSE LET others == {u \in Tasks \ {t} :
                              Active(im_call[u]) /\ im_call[u].service = s}
                f == [NoCall EXCEPT
                        !.service = s,
                        !.params = params,
                        !.breaker = circuit_breakers[s],
                        !.config = retry_configs[s],
                        !.alone = (others = {}),
                        !.start = [breaker |-> breakers[circuit_breakers[s]],
                                   stats |-> integrations[s],
                                   handler |-> handlers[s]]]
                marked == [u \in Tasks |->
                              IF u \in others
                              THEN [im_call[u] EXCEPT !.alone = FALSE]
                              ELSE im_call[u]]
            IN  attempt_step(t, f, marked)

\* A task calls the manager directly, as TestRetryLogic does.
IMCall(t, s) ==
    /\ ~Active(im_call[t])
    /\ im_calls < MaxIMCalls
    /\ im_calls' = im_calls + 1
    /\ execute_integration_with_retry(t, s, EmptyDict)
    /\ UNCHANGED <<now, cbvars, circuit_breakers, retry_configs, registrations, engvars>>

\* Line 142 returns: the next turn of the loop.
IMResume(t) ==
    /\ im_call[t].pc = "sleeping"
    /\ now >= im_call[t].wake
    /\ attempt_step(t, [im_call[t] EXCEPT !.attempt = @ + 1], im_call)
    /\ UNCHANGED <<now, cbvars, circuit_breakers, retry_configs, registrations, im_calls>>

\* The handler awaited at line 115 (through CircuitBreaker.call) returns or
\* raises: lines 62-66, then 117-121 or 123-142.
IMHandlerEnds(t) ==
    LET f == im_call[t]
        s == f.service
    IN  /\ f.pc = "in_handler"
        /\ IF f.outcome = "ok"
           THEN /\ breakers' = [breakers EXCEPT ![f.breaker] = on_success(@)]
                /\ integrations' = count_success(integrations, s, now)
                /\ im_call' = [im_call EXCEPT ![t] =
                        [f EXCEPT !.pc = "returned",
                                  !.result = [success |-> TRUE, data |-> f.data,
                                              attempt |-> f.attempt + 1]]]
           ELSE /\ breakers' = [breakers EXCEPT ![f.breaker] = on_failure(@, now)]
                /\ integrations' = count_error(integrations, s)
                /\ after_failure(t, f, "handler_error", im_call)
        /\ UNCHANGED <<now, cbvars, handlers, circuit_breakers, retry_configs,
                       registrations, im_calls>>

InitIM ==
    /\ now = 0
    /\ breakers = <<>>
    /\ cb_task = [t \in Tasks |-> IdleTask("none")]
    /\ streak = 0
    /\ streak_time = None
    /\ func_calls = 0
    /\ overlap = FALSE
    /\ InitManager
    /\ InitEngine

\* One integration is registered, twilio; a call that names sendgrid finds no
\* integration.
NextIM ==
    LET HandlerInputs ==
            {Handler("ok", 0), Handler("fail", 0),
             Handler("flaky", FlakyFailures), Handler("flaky", DefaultFailureThreshold)}
        \* The retry policies callers register: RetryConfig() as it defaults, and
        \* every max_attempts up to one more than the breaker's threshold with no
        \* backoff delay (base_delay = 0, which makes the jitter immaterial).
        RetryConfigs ==
            {RetryConfig(n, 0, FALSE) : n \in 1..(DefaultFailureThreshold + 1)}
                \cup {RetryConfig(DefaultMaxAttempts, DefaultBaseDelay, TRUE)}
    IN  \/ Tick
        \/ \E h \in HandlerInputs, c \in RetryConfigs :
              /\ registrations < MaxRegistrations
              /\ register_integration("twilio", h, c)
        \/ \E t \in Tasks, s \in Services : IMCall(t, s)
        \/ \E t \in Tasks : IMResume(t) /\ UNCHANGED engvars
        \/ \E t \in Tasks : IMHandlerEnds(t) /\ UNCHANGED engvars

SpecIM == InitIM /\ [][NextIM]_vars

-----------------------------------------------------------------------------
(* A manager whose integrations are registered again while it is in use:  *)
(* handlers that do not change their mind, one retry policy without       *)
(* delays that lets one call open the breaker, and a clock that stands.   *)
(* A call begins while no other call is in flight; a registration comes   *)
(* at any time.                                                            *)

NextRegistry ==
    \/ \E s \in Services, h \in {Handler("ok", 0), Handler("fail", 0)} :
          /\ registrations < MaxReRegistrations
          /\ register_integration(s, h,
                    RetryConfig(DefaultFailureThreshold + 1, 0, FALSE))
    \/ \E t \in Tasks, s \in Services :
          (\A x \in Tasks : ~Active(im_call[x])) /\ IMCall(t, s)
    \/ \E t \in Tasks : IMResume(t) /\ UNCHANGED engvars
    \/ \E t \in Tasks : IMHandlerEnds(t) /\ UNCHANGED engvars

SpecRegistry == InitIM /\ [][NextRegistry]_vars

-----------------------------------------------------------------------------
(* Claims about execute_integration_with_retry, checked under SpecIM       *)

\* Task t's call returns in this step.
Returns(t) == im_call[t].pc # "returned" /\ im_call'[t].pc = "returned"

\* The 1-based attempt at which the handler the call started with first
\* succeeds, if every attempt before it invokes the handler.
FirstSuccess(f) ==
    LET left == f.start.handler.fails - f.start.handler.calls
    IN  (IF left > 0 THEN left ELSE 0) + 1

\* The breaker admits the next n handler failures of a call that starts on it.
StaysClosedFor(b, n) ==
    b.state = "closed" /\ b.failure_count + n < b.failure_threshold

\* C5 as stated: a returned call on an always-failing handler with
\* max_attempts = N invoked the handler exactly N times and returned
\* success=false, attempts=N.
C5_InvokedEveryAttempt ==
    \A t \in Tasks :
        LET f == im_call[t]
            N == f.config.max_attempts
        IN  (f.pc = "returned" /\ f.alone /\ f.start.handler.kind = "fail")
                => /\ f.invoked = N
                   /\ ~f.result.success
                   /\ f.result.attempts = N

\* C5 as amended: a call on an always-failing handler with max_attempts = N,
\* with no other call or registration on that integration during it, makes N
\* attempts, each one invoking the handler or rejected by the breaker, and
\* returns success=false, attempts=N; it invokes the handler exactly N times
\* when it starts with the breaker Closed with failure counter c and
\* c + N <= failure_threshold (5).
C5_InvokedWhileClosed ==
    \A t \in Tasks :
        LET f == im_call[t]
            N == f.config.max_attempts
        IN  (f.pc = "returned" /\ f.alone /\ f.start.handler.kind = "fail")
                => /\ ~f.result.success
                   /\ f.result.attempts = N
                   /\ f.invoked + f.rejected = N
                   /\ StaysClosedFor(f.start.breaker, N - 1) => f.invoked = N

\* C5 witness: a call with max_attempts = 5 on a freshly registered
\* always-failing handler returned after invoking it 5 times.
C5_Witness ==
    \E t \in Tasks :
        LET f == im_call[t]
        IN  /\ f.pc = "returned" /\ f.alone /\ f.start.handler.kind = "fail"
            /\ f.start.breaker.failure_count = 0
            /\ f.config.max_attempts = DefaultFailureThreshold
            /\ f.invoked = DefaultFailureThreshold
            /\ ~f.result.success

\* C6 as stated: a call on a handler that fails k-1 times and then succeeds,
\* k <= max_attempts, invoked the handler exactly k times and returned
\* success=true, attempt=k.
C6_SucceedsAtKth ==
    \A t \in Tasks :
        LET f == im_call[t]
            k == FirstSuccess(f)
        IN  (f.pc = "returned" /\ f.alone /\ f.start.handler.kind \in {"ok", "flaky"}
                /\ k <= f.config.max_attempts)
                => /\ f.result.success
                   /\ f.result.attempt = k
                   /\ f.invoked = k

\* C6 as amended: the first attempt whose handler invocation succeeds ends the
\* call, with success_count incremented once and the returned attempt its
\* 1-based index; and a handler that fails k-1 times and then succeeds,
\* k <= max_attempts, is invoked exactly k times with success=true, attempt=k
\* when the call starts with the breaker Closed with failure counter c and
\* c + k - 1 < failure_threshold (5), with no other call or registration on
\* that integration during the call.
C6_FirstSuccessEndsCall ==
    /\ [][\A t \in Tasks :
            (im_call[t].pc = "in_handler" /\ im_call[t].outcome = "ok"
                /\ im_call'[t].pc # "in_handler")
                => /\ im_call'[t].pc = "returned"
                   /\ im_call'[t].result.success
                   /\ im_call'[t].result.attempt = im_call[t].attempt + 1
                   /\ im_call'[t].result.attempt
                        = im_call[t].invoked + im_call[t].rejected
                   /\ im_call'[t].invoked = im_call[t].invoked
                   /\ handlers' = handlers
                   /\ integrations'[im_call[t].service].success_count
                        = integrations[im_call[t].service].success_count + 1
         ]_vars
    /\ [](\A t \in Tasks :
            LET f == im_call[t]
                k == FirstSuccess(f)
            IN  (f.pc = "returned" /\ f.alone
                    /\ f.start.handler.kind \in {"ok", "flaky"}
                    /\ k <= f.config.max_attempts
                    /\ StaysClosedFor(f.start.breaker, k - 1))
                    => /\ f.result.success
                       /\ f.result.attempt = k
                       /\ f.invoked = k)

\* C6 witness: a handler that fails twice and then succeeds was invoked three
\* times by one call, which returned success at attempt 3.
C6_Witness ==
    \E t \in Tasks :
        LET f == im_call[t]
        IN  /\ f.pc = "returned" /\ f.alone
            /\ f.start.handler = Handler("flaky", FlakyFailures)
            /\ f.result.success
            /\ f.result.attempt = FlakyFailures + 1
            /\ f.invoked = FlakyFailures + 1
            /\ integrations[f.service].success_count = 1

\* C7: a call that starts with its integration's breaker Open and returns
\* while no more than recovery_timeout has passed since the breaker's
\* last_failure_time (no other call or registration on that integration
\* during it) made max_attempts attempts, each rejected by the breaker: the
\* handler was not invoked, error_count grew by max_attempts, the breaker's
\* failure counter and last_failure_time are as at the start, and the result
\* is success=false.
C7_OpenBreakerConsumesRetries ==
    [][\A t \in Tasks :
        LET f == im_call'[t]
            N == f.config.max_attempts
            b == f.start.breaker
        IN  (Returns(t) /\ f.alone /\ b.state = "open"
                /\ now - b.last_failure_time <= b.recovery_timeout)
                => /\ ~f.result.success
                   /\ f.result.attempts = N
                   /\ f.result.error = "circuit_open"
                   /\ f.rejected = N
                   /\ f.invoked = 0
                   /\ handlers'[f.service] = f.start.handler
                   /\ integrations'[f.service].error_count
                        = f.start.stats.error_count + N
                   /\ breakers'[f.breaker] = b
    ]_vars

\* C7 witness: a call that started on an Open breaker returned failure after
\* max_attempts rejections and no invocation.
C7_Witness ==
    \E t \in Tasks :
        LET f == im_call[t]
        IN  /\ f.pc = "returned" /\ f.alone
            /\ f.start.breaker.state = "open"
            /\ f.rejected = f.config.max_attempts
            /\ f.invoked = 0
            /\ ~f.result.success

-----------------------------------------------------------------------------
(* EnhancedWorkflowEngine: start_workflow and the driving task             *)

EngineHandlerInputs ==
    {Handler("ok", 0), Handler("fail", 0), Handler("flaky", FlakyFailures)}

\* RetryConfig(max_attempts=3, base_delay=0.1, max_delay=5.0) of
\* src/test_integration.py, whose sleeps are shorter than a second, and
\* RetryConfig().
EngineRetryConfigs ==
    {RetryConfig(DefaultMaxAttempts, 0, FALSE),
     RetryConfig(DefaultMaxAttempts, DefaultBaseDelay, TRUE)}

Started == {e \in ExecIds : executions[e].status # "absent"}

\* The driving task of e is running: it is not suspended in a handler, a
\* sleep or a callback, it has begun and it has not ended.
\* Busy for sleeps that hold the thread (time.sleep): a task in a Delay or
\* in a backoff sleep keeps running.
Busy_in_sleep(e) ==
    \/ driver[e].pc \in {"at_step", "after_step", "after_loop", "in_delay"}
    \/ driver[e].pc = "in_action" /\ im_call[e].pc = "sleeping"
    \/ driver[e].pc \in {"notify_running", "notify_completed"}
          /\ execution_callbacks = 0

Busy(e) ==
    \/ driver[e].pc \in {"at_step", "after_step", "after_loop"}
    \/ driver[e].pc \in {"notify_running", "notify_completed"}
          /\ execution_callbacks = 0

\* The event loop can run e's task, or the caller's code.
CanRun(e) == \A x \in ExecIds \ {e} : ~Busy(x)

CanCall == \A x \in ExecIds : ~Busy(x)

\* Lines 157-160.
register_template(template) ==
    /\ CanCall
    /\ templates' = [templates EXCEPT ![template.id] = template]
    /\ UNCHANGED <<now, breakers, cbvars, imvars, executions, execution_callbacks,
                   db, issued, starter, driver, notified, action_calls>>

\* Lines 166-168, for a callback that raises when invoked, or one that does
\* not.
add_execution_callback(raises) ==
    /\ CanCall
    /\ execution_callbacks' = execution_callbacks + 1
    /\ raising' = IF raises THEN raising \cup {execution_callbacks'} ELSE raising
    /\ UNCHANGED <<now, breakers, cbvars, imvars, templates, executions, db,
                   issued, starter, driver, notified, action_calls>>

\* start_workflow raising for no template id at all.
start_raises_never(template_id) == FALSE

\* Lines 180-181: `if template_id not in self.templates: raise ValueError`.
start_raises(template_id) == templates[template_id] = NoTemplate

\* Lines 178-219: start_workflow raises, or creates the execution, persists
\* it, creates the driving task and notifies `started` up to callback k of
\* the list, which suspends (or up to the last callback).
start_workflow_up_to(template_id, k) ==
    /\ CanCall
    /\ IF start_raises(template_id)
       THEN UNCHANGED <<executions, db, issued, starter, driver, notified>>
       ELSE LET e == Cardinality(Started) + 1
                ex == WorkflowExecution(template_id, UserId, TriggerData)
            IN  /\ e \in ExecIds
                /\ executions' = [executions EXCEPT ![e] = ex]
                /\ db' = create_execution(db, e, ex, now)
                /\ issued' = issue_create(issued, e, create_raises(db, e))
                /\ driver' = [driver EXCEPT ![e].pc = "spawned"]
                /\ notified' = deliver(notified, e, "started", 1, k)
                /\ starter' = [starter EXCEPT ![e] =
                        IF execution_callbacks = 0 THEN "returned"
                        ELSE "notify_started"]
    /\ UNCHANGED <<now, breakers, cbvars, imvars, templates, execution_callbacks,
                   action_calls>>

\* start_workflow with callbacks of which none but the last suspends.
start_workflow(template_id) == start_workflow_up_to(template_id, execution_callbacks)

\* start_workflow awaiting the driving task before it returns.
StartReturns_after_task(e) ==
    /\ CanCall
    /\ starter[e] = "notify_started"
    /\ driver[e].pc = "done"
    /\ starter' = [starter EXCEPT ![e] = "returned"]
    /\ UNCHANGED <<now, breakers, cbvars, imvars, templates, executions,
                   execution_callbacks, db, issued, driver, notified, action_calls>>

\* Lines 221-222: the callbacks are through and start_workflow returns.
StartReturns(e) ==
    /\ CanCall
    /\ starter[e] = "notify_started"
    /\ starter' = [starter EXCEPT ![e] = "returned"]
    /\ UNCHANGED <<now, breakers, cbvars, imvars, templates, executions,
                   execution_callbacks, db, issued, driver, notified, action_calls>>

\* persist with no `except` around the update: what db_manager raises gets
\* to the except branch of the driving task (lines 265-269) and on to its
\* finally block.
persist_propagates(e, ex, pc, step) ==
    /\ executions' = [executions EXCEPT ![e] =
            IF update_raises(ex)
            THEN [ex EXCEPT !.status = "failed",
                            !.error_message = [kind |-> "database_error"],
                            !.completed_at = Stamp(now),
                            !.current_step_id = "none"]
            ELSE ex]
    /\ db' = update_execution_in_db(db, e, ex)
    /\ issued' = issue_update(issued, e, ex, update_raises(ex))
    /\ driver' = [driver EXCEPT ![e].pc = IF update_raises(ex) THEN "done" ELSE pc,
                                ![e].step = IF update_raises(ex) THEN 0 ELSE step]

\* The task stores ex and calls _update_execution_in_db (lines 278-291).
persist(e, ex, pc, step) ==
    /\ executions' = [executions EXCEPT ![e] = ex]
    /\ db' = update_execution_in_db(db, e, ex)
    /\ issued' = issue_update(issued, e, ex, update_raises(ex))
    /\ driver' = [driver EXCEPT ![e].pc = pc, ![e].step = step]

\* Lines 239-242: the top of the loop, for step i of the template.
enter_step(e, ex, i) ==
    /\ persist(e, [ex EXCEPT !.current_step_id = driver[e].template.steps[i].id],
               "at_step", i)
    /\ UNCHANGED notified

\* The finally block leaving current_step_id as the loop left it.
finally_block_keeps_step(e, ex) ==
    /\ persist(e, [ex EXCEPT !.completed_at = Stamp(now)], "done", 0)
    /\ UNCHANGED notified

\* Lines 271-276.
finally_block(e, ex) ==
    /\ persist(e, [ex EXCEPT !.completed_at = Stamp(now), !.current_step_id = "none"],
               "done", 0)
    /\ UNCHANGED notified

\* The loop is left: by `break`, or with no next step.
leave_loop(e, ex) ==
    /\ executions' = [executions EXCEPT ![e] = ex]
    /\ driver' = [driver EXCEPT ![e].pc = "after_loop"]
    /\ UNCHANGED <<db, issued, notified>>

\* The step's result put in the place of the list.
step_done_replaces(e, r) ==
    /\ persist(e, [executions[e] EXCEPT !.step_results = <<r>>],
               "after_step", driver[e].step)
    /\ UNCHANGED notified

\* The step's output merged into the context under the step's id.
step_done_merges(e, r) ==
    /\ persist(e, [executions[e] EXCEPT
                    !.step_results = Append(@, r),
                    !.context = Dict(Append(@.keys, <<r.step_id>>),
                                     Append(@.vals, Str(<<r.status>>)))],
               "after_step", driver[e].step)
    /\ UNCHANGED notified

\* Lines 246-250: the step's result is appended and persisted.
step_done(e, r) ==
    /\ persist(e, [executions[e] EXCEPT !.step_results = Append(@, r)],
               "after_step", driver[e].step)
    /\ UNCHANGED notified

\* Lines 224-232.
DriverStarts(e) ==
    /\ CanRun(e)
    /\ driver[e].pc = "spawned"
    /\ LET ex == [executions[e] EXCEPT !.status = "running", !.started_at = Stamp(now)]
       IN  /\ executions' = [executions EXCEPT ![e] = ex]
           /\ db' = update_execution_in_db(db, e, ex)
           /\ issued' = issue_update(issued, e, ex, update_raises(ex))
           /\ driver' = [driver EXCEPT ![e] =
                    [NoDriver EXCEPT !.pc = "notify_running",
                                     !.template = templates[ex.template_id]]]
    /\ notified' = notify(notified, e, "running")
    /\ UNCHANGED <<now, breakers, cbvars, imvars, templates, execution_callbacks,
                   starter, action_calls>>

\* Lines 234-242.
DriverEntersLoop(e) ==
    /\ CanRun(e)
    /\ driver[e].pc = "notify_running"
    /\ IF driver[e].template.steps # <<>>
       THEN enter_step(e, executions[e], 1)
       ELSE leave_loop(e, executions[e])
    /\ UNCHANGED <<now, breakers, cbvars, imvars, templates, execution_callbacks,
                   starter, action_calls>>

\* The ValueError of line 106 taken for a success of the step.
not_registered_result_completed(step, f) ==
    StepResult(step.id, "completed", NoOutput, NoError)

\* Lines 323-327 for the ValueError of line 106, "Integration {service_name}
\* not registered", which _handle_action_with_retry lets through.
not_registered_result(step, f) ==
    StepResult(step.id, "failed", NoOutput,
               [kind |-> "not_registered", service |-> f.service])

\* _handle_action_with_retry (lines 359-364) once the manager's call of frame
\* im_call'[e] has returned or raised; the task stays in the call otherwise.
action_continues(e, step) ==
    LET f == im_call'[e]
    IN  IF f.pc = "raised"
        THEN /\ step_done(e, not_registered_result(step, f))
             /\ action_calls' = [action_calls EXCEPT ![e] = Append(@, f)]
        ELSE IF f.pc = "returned"
        THEN /\ step_done(e,
                    IF f.result.success
                    THEN StepResult(step.id, "completed", action_output(f.result), NoError)
                    ELSE StepResult(step.id, "failed", NoOutput, action_error(f.result)))
             /\ action_calls' = [action_calls EXCEPT ![e] = Append(@, f)]
        ELSE /\ driver' = [driver EXCEPT ![e].pc = "in_action"]
             /\ UNCHANGED <<executions, db, issued, notified, action_calls>>

\* Lines 245 and 293-329: _execute_step_with_retry up to the point where the
\* step's handler suspends or the result is appended.
DriverExecutesStep(e) ==
    LET step == driver[e].template.steps[driver[e].step]
        quiet == UNCHANGED <<now, breakers, cbvars, imvars, action_calls>>
    IN  /\ CanRun(e)
        /\ driver[e].pc = "at_step"
        /\ CASE step.type = "trigger" ->
                    /\ step_done(e, StepResult(step.id, "completed",
                                    handle_trigger(step, executions[e]), NoError))
                    /\ quiet
             [] step.type = "action" ->
                    IF step.config.service = NoService
                    THEN /\ step_done(e, StepResult(step.id, "failed", NoOutput,
                                        [kind |-> "no_service"]))
                         /\ quiet
                    ELSE /\ execute_integration_with_retry(e, step.config.service,
                                replace_variables(step.config.params,
                                                  executions[e].context))
                         /\ action_continues(e, step)
                         /\ UNCHANGED <<now, cbvars, circuit_breakers, retry_configs,
                                        registrations, im_calls>>
             [] step.type = "delay" ->
                    /\ IF total_seconds(step) > 0
                       THEN /\ driver' = [driver EXCEPT ![e].pc = "in_delay",
                                                        ![e].wake = now + total_seconds(step)]
                            /\ UNCHANGED <<executions, db, issued, notified>>
                       ELSE step_done(e, StepResult(step.id, "completed",
                                        handle_delay(step), NoError))
                    /\ quiet
             [] step.type = "condition" ->
                    /\ IF condition_raises(step, executions[e])
                       THEN step_done(e, StepResult(step.id, "failed", NoOutput,
                                        [kind |-> "not_a_number"]))
                       ELSE step_done(e, StepResult(step.id, "completed",
                                        handle_condition(step, executions[e]),
                                        NoError))
                    /\ quiet
             [] step.type = "webhook" ->
                    /\ step_done(e, StepResult(step.id, "completed",
                                    handle_webhook(step), NoError))
                    /\ quiet
             [] OTHER ->
                    /\ step_done(e, StepResult(step.id, "failed", NoOutput,
                                    [kind |-> "unknown_step_type"]))
                    /\ quiet
        /\ UNCHANGED <<templates, execution_callbacks, starter>>

\* The backoff sleep of the Action's call ends (line 142).
DriverActionResumes(e) ==
    /\ CanRun(e)
    /\ driver[e].pc = "in_action"
    /\ IMResume(e)
    /\ action_continues(e, driver[e].template.steps[driver[e].step])
    /\ UNCHANGED <<templates, execution_callbacks, starter>>

\* The handler the Action's call awaits returns or raises.
DriverHandlerEnds(e) ==
    /\ CanRun(e)
    /\ driver[e].pc = "in_action"
    /\ IMHandlerEnds(e)
    /\ action_continues(e, driver[e].template.steps[driver[e].step])
    /\ UNCHANGED <<templates, execution_callbacks, starter>>

\* asyncio.sleep(total_seconds) of _handle_delay returns (line 376).
DriverDelayEnds(e) ==
    LET step == driver[e].template.steps[driver[e].step]
    IN  /\ CanRun(e)
        /\ driver[e].pc = "in_delay"
        /\ now >= driver[e].wake
        /\ step_done(e, StepResult(step.id, "completed", handle_delay(step), NoError))
        /\ UNCHANGED <<now, breakers, cbvars, imvars, templates, execution_callbacks,
                       starter, action_calls>>

\* The loop left after a Condition that evaluated to false.
DriverAfterStep_branches(e) ==
    LET ex == executions[e]
        last == ex.step_results[Len(ex.step_results)]
        next == get_next_step(driver[e].step, driver[e].template)
        stops == /\ driver[e].template.steps[driver[e].step].type = "condition"
                 /\ last.status = "completed"
                 /\ ~last.output.result
    IN  /\ CanRun(e)
        /\ driver[e].pc = "after_step"
        /\ IF step_failed(last)
           THEN leave_loop(e, [ex EXCEPT !.status = "failed",
                                         !.error_message = last.error])
           ELSE IF next # 0 /\ ~stops
           THEN enter_step(e, ex, next)
           ELSE leave_loop(e, ex)
        /\ UNCHANGED <<now, breakers, cbvars, imvars, templates, execution_callbacks,
                       starter, action_calls>>

\* Lines 252-258, and back to 239-242 when there is a next step.
DriverAfterStep(e) ==
    LET ex == executions[e]
        last == ex.step_results[Len(ex.step_results)]
        next == get_next_step(driver[e].step, driver[e].template)
    IN  /\ CanRun(e)
        /\ driver[e].pc = "after_step"
        /\ IF step_failed(last)
           THEN leave_loop(e, [ex EXCEPT !.status = "failed",
                                         !.error_message = last.error])
           ELSE IF next # 0
           THEN enter_step(e, ex, next)
           ELSE leave_loop(e, ex)
        /\ UNCHANGED <<now, breakers, cbvars, imvars, templates, execution_callbacks,
                       starter, action_calls>>

\* Lines 260-263, and 271-276 when `completed` is not notified.
DriverLeavesLoop(e) ==
    LET ex == executions[e]
    IN  /\ CanRun(e)
        /\ driver[e].pc = "after_loop"
        /\ IF marks_completed(ex.status)
           THEN /\ executions' = [executions EXCEPT ![e].status = "completed"]
                /\ notified' = notify(notified, e, "completed")
                /\ driver' = [driver EXCEPT ![e].pc = "notify_completed", ![e].step = 0]
                /\ UNCHANGED <<db, issued>>
           ELSE finally_block(e, ex)
        /\ UNCHANGED <<now, breakers, cbvars, imvars, templates, execution_callbacks,
                       starter, action_calls>>

\* Lines 271-276, after `completed` was notified.
DriverFinally(e) ==
    /\ CanRun(e)
    /\ driver[e].pc = "notify_completed"
    /\ finally_block(e, executions[e])
    /\ UNCHANGED <<now, breakers, cbvars, imvars, templates, execution_callbacks,
                   starter, action_calls>>

InitEngineSpec ==
    /\ now = 0
    /\ breakers = <<>>
    /\ cb_task = [t \in Tasks |-> IdleTask("none")]
    /\ streak = 0
    /\ streak_time = None
    /\ func_calls = 0
    /\ overlap = FALSE
    /\ InitManager
    /\ InitEngine

\* The callback is registered before the first execution is started.
NextEngine ==
    \/ Tick /\ CanCall /\ now' <= MaxEngineTime
    \/ \E s \in Services, h \in EngineHandlerInputs, c \in EngineRetryConfigs :
          /\ registrations < MaxRegistrations
          /\ register_integration(s, h, c) /\ CanCall
    \/ \E t \in TemplateInputs : register_template(t) /\ UNCHANGED envvars
    \/ /\ execution_callbacks < MaxCallbacks /\ Started = {}
       /\ add_execution_callback(FALSE)
       /\ UNCHANGED <<db_down, last_call, resolution>>
    \/ \E id \in TemplateIds : start_workflow(id) /\ UNCHANGED envvars
    \/ \E e \in ExecIds : StartReturns(e) /\ UNCHANGED envvars
    \/ \E e \in ExecIds : DriverStarts(e) /\ UNCHANGED envvars
    \/ \E e \in ExecIds : DriverEntersLoop(e) /\ UNCHANGED envvars
    \/ \E e \in ExecIds : DriverExecutesStep(e) /\ UNCHANGED envvars
    \/ \E e \in ExecIds : DriverActionResumes(e) /\ UNCHANGED envvars
    \/ \E e \in ExecIds : DriverHandlerEnds(e) /\ UNCHANGED envvars
    \/ \E e \in ExecIds : DriverDelayEnds(e) /\ UNCHANGED envvars
    \/ \E e \in ExecIds : DriverAfterStep(e) /\ UNCHANGED envvars
    \/ \E e \in ExecIds : DriverLeavesLoop(e) /\ UNCHANGED envvars
    \/ \E e \in ExecIds : DriverFinally(e) /\ UNCHANGED envvars

SpecEngine == InitEngineSpec /\ [][NextEngine]_vars

-----------------------------------------------------------------------------
(* The engine with its collaborators misbehaving: a database whose calls  *)
(* raise for a while, callbacks that raise, a database file that holds a  *)
(* row of an earlier run; and a caller that asks for statuses.  One       *)
(* integration, handlers that do not change their mind, no delays.        *)
(* The integration, the templates and the callbacks are registered before *)
(* the execution is started, and the caller asks for the statuses of ids  *)
(* whose driving task is not under way: ids that were never started, the  *)
(* id of the earlier run, executions that have ended.                      *)

\* A template of one trigger step, as that of test_template_registration,
\* under the id of QuickDispatch.
ShortDispatch ==
    WorkflowTemplate("quick_dispatch",
        << WorkflowStep("trigger", "trigger",
                [DefaultConfig EXCEPT !.event = "emergency_request"], <<>>) >>)

StoreHandlerInputs == {Handler("ok", 0), Handler("fail", 0)}

StoreRetryConfig == RetryConfig(DefaultMaxAttempts, 0, FALSE)

\* A call of start_workflow and what its caller gets at once: the exception,
\* or nothing yet (the id comes when the call returns).
StartWorkflowCall(template_id) ==
    /\ start_workflow(template_id)
    /\ last_call' = CallResult("start_workflow", template_id, None,
                        IF start_raises(template_id) THEN "template_not_found"
                        ELSE "execution", FALSE, NoExecution)
    /\ UNCHANGED <<db_down, raising, resolution>>

\* get_execution_status returning what it loaded without keeping it.
get_execution_status_uncached(id) ==
    /\ CanCall
    /\ IF executions[id].status # "absent"
       THEN last_call' = CallResult("get_execution_status", "none", id,
                                "found", FALSE, executions[id])
       ELSE IF ~db_down /\ db[id].status # "absent"
       THEN last_call' = CallResult("get_execution_status", "none", id,
                                "found", TRUE, reconstruct(db[id]))
       ELSE last_call' = CallResult("get_execution_status", "none", id,
                                "not_found", TRUE, NoExecution)
    /\ UNCHANGED <<now, breakers, cbvars, imvars, templates, execution_callbacks,
                   db, issued, starter, driver, notified, action_calls,
                   db_down, raising, resolution, executions>>

\* Lines 467-497.
get_execution_status(id) ==
    /\ CanCall
    /\ IF executions[id].status # "absent"
       THEN /\ last_call' = CallResult("get_execution_status", "none", id,
                                "found", FALSE, executions[id])
            /\ UNCHANGED executions
       ELSE IF ~db_down /\ db[id].status # "absent"
       THEN /\ executions' = [executions EXCEPT ![id] = reconstruct(db[id])]
            /\ last_call' = CallResult("get_execution_status", "none", id,
                                "found", TRUE, reconstruct(db[id]))
       ELSE /\ last_call' = CallResult("get_execution_status", "none", id,
                                "not_found", TRUE, NoExecution)
            /\ UNCHANGED executions
    /\ UNCHANGED <<now, breakers, cbvars, imvars, templates, execution_callbacks,
                   db, issued, starter, driver, notified, action_calls,
                   db_down, raising, resolution>>

\* The database goes out of order (every call raises), or comes back.
DatabaseToggles ==
    /\ db_down' = ~db_down
    /\ UNCHANGED <<now, breakers, cbvars, imvars, templates, executions,
                   execution_callbacks, db, issued, starter, driver, notified,
                   action_calls, raising, last_call, resolution>>

InitStore ==
    LET \* The row an execution leaves in the table once its trigger step has run.
        StoredRow ==
            [NoRecord EXCEPT !.status = "running", !.started_at = Stamp(0),
                             !.current_step_id = "trigger"]
    IN  /\ now = 0
        /\ breakers = <<>>
        /\ cb_task = [t \in Tasks |-> IdleTask("none")]
        /\ streak = 0
        /\ streak_time = None
        /\ func_calls = 0
        /\ overlap = FALSE
        /\ InitManager
        /\ \E row \in {NoRecord, StoredRow} :
              InitEngineOver([e \in AllIds |->
                                IF e \in StoredIds THEN row ELSE NoRecord])

NextStore ==
    \/ \E h \in StoreHandlerInputs :
          /\ registrations < MaxRegistrations /\ Started = {}
          /\ register_integration("twilio", h, StoreRetryConfig) /\ CanCall
    \/ \E t \in {QuickDispatch, ShortDispatch} :
          Started = {} /\ register_template(t) /\ UNCHANGED envvars
    \/ \E raises \in BOOLEAN :
          /\ execution_callbacks < MaxStoreCallbacks /\ Started = {}
          /\ add_execution_callback(raises)
          /\ UNCHANGED <<db_down, last_call, resolution>>
    \/ \E id \in TemplateIds :
          /\ start_raises(id) \/ Cardinality(Started) < MaxStoreExecutions
          /\ StartWorkflowCall(id)
    \/ \E id \in AllIds :
          /\ id \in Started => driver[id].pc = "done"
          /\ get_execution_status(id)
    \/ DatabaseToggles
    \/ \E e \in ExecIds : StartReturns(e) /\ UNCHANGED envvars
    \/ \E e \in ExecIds : DriverStarts(e) /\ UNCHANGED envvars
    \/ \E e \in ExecIds : DriverEntersLoop(e) /\ UNCHANGED envvars
    \/ \E e \in ExecIds : DriverExecutesStep(e) /\ UNCHANGED envvars
    \/ \E e \in ExecIds : DriverActionResumes(e) /\ UNCHANGED envvars
    \/ \E e \in ExecIds : DriverHandlerEnds(e) /\ UNCHANGED envvars
    \/ \E e \in ExecIds : DriverAfterStep(e) /\ UNCHANGED envvars
    \/ \E e \in ExecIds : DriverLeavesLoop(e) /\ UNCHANGED envvars
    \/ \E e \in ExecIds : DriverFinally(e) /\ UNCHANGED envvars

SpecStore == InitStore /\ [][NextStore]_vars

\* The event loop goes on running the task that is running: the driving
\* task of e gets to its next suspension.
DriverRuns(e) ==
    /\ Busy(e)
    /\ \/ DriverEntersLoop(e)
       \/ DriverExecutesStep(e)
       \/ DriverAfterStep(e)
       \/ DriverLeavesLoop(e)
       \/ DriverFinally(e)
    /\ UNCHANGED envvars

\* Callers that start executions of QuickDispatch and ask for statuses, with
\* a database and callbacks that do not raise.
\* The callback is registered before the first execution is started.
NextStart ==
    \/ \E h \in StoreHandlerInputs :
          /\ registrations < MaxRegistrations
          /\ register_integration("twilio", h, StoreRetryConfig) /\ CanCall
    \/ register_template(QuickDispatch) /\ UNCHANGED envvars
    \/ /\ execution_callbacks < MaxCallbacks /\ Started = {}
       /\ add_execution_callback(FALSE)
       /\ UNCHANGED <<db_down, last_call, resolution>>
    \/ \E id \in TemplateIds : StartWorkflowCall(id)
    \/ \E id \in ExecIds : get_execution_status(id)
    \/ \E e \in ExecIds : StartReturns(e) /\ UNCHANGED envvars
    \/ \E e \in ExecIds : DriverStarts(e) /\ UNCHANGED envvars
    \/ \E e \in ExecIds : DriverEntersLoop(e) /\ UNCHANGED envvars
    \/ \E e \in ExecIds : DriverExecutesStep(e) /\ UNCHANGED envvars
    \/ \E e \in ExecIds : DriverActionResumes(e) /\ UNCHANGED envvars
    \/ \E e \in ExecIds : DriverHandlerEnds(e) /\ UNCHANGED envvars
    \/ \E e \in ExecIds : DriverAfterStep(e) /\ UNCHANGED envvars
    \/ \E e \in ExecIds : DriverLeavesLoop(e) /\ UNCHANGED envvars
    \/ \E e \in ExecIds : DriverFinally(e) /\ UNCHANGED envvars

\* A running task gets to its next suspension and the callbacks of a call of
\* start_workflow return.  Nothing makes a handler, a backoff sleep or a
\* callback of the driving task ever return.
SpecStart ==
    /\ InitEngineSpec
    /\ [][NextStart]_vars
    /\ \A e \in ExecIds : WF_vars(DriverRuns(e))
    /\ \A e \in ExecIds : WF_vars(StartReturns(e) /\ UNCHANGED envvars)

-----------------------------------------------------------------------------
(* The engine running templates whose steps jump by explicit successors,  *)
(* fail in their handlers or compare numbers: one integration, handlers   *)
(* that do not change their mind, no delays, no callbacks.  The           *)
(* integration is registered before the first execution is started, and  *)
(* a template is registered once every template registered before it is  *)
(* that of an execution.                                                   *)

TriggerStep(next_steps) ==
    WorkflowStep("trigger", "trigger",
        [DefaultConfig EXCEPT !.event = "emergency_request"], next_steps)

\* trigger goes to its first successor, the last step, over the step that
\* follows it in template order.
Branching ==
    WorkflowTemplate("branching",
        << TriggerStep(<<"log", "notify">>),
           WorkflowStep("notify", "webhook", DefaultConfig, <<>>),
           WorkflowStep("log", "condition", DefaultConfig, <<>>) >>)

\* trigger goes forward to the last step, which goes back to the Action, whose
\* successor is the id of no step.
BackJump ==
    WorkflowTemplate("back_jump",
        << TriggerStep(<<"notify">>),
           WorkflowStep("dispatch_sms", "action",
                [DefaultConfig EXCEPT !.service = "twilio",
                                      !.params = DispatchParams], <<"archive">>),
           WorkflowStep("notify", "webhook", DefaultConfig, <<"dispatch_sms">>) >>)

\* An Action without config.service between two steps.
NoServiceAction ==
    WorkflowTemplate("no_service",
        << TriggerStep(<<>>),
           WorkflowStep("dispatch_sms", "action",
                [DefaultConfig EXCEPT !.params = DispatchParams], <<>>),
           WorkflowStep("notify", "webhook", DefaultConfig, <<>>) >>)

\* A Condition between two steps.
Conditions(condition) ==
    WorkflowTemplate("conditions",
        << TriggerStep(<<>>),
           WorkflowStep("check", "condition",
                [DefaultConfig EXCEPT !.condition = condition], <<>>),
           WorkflowStep("notify", "webhook", DefaultConfig, <<>>) >>)

NextSteps ==
    LET \* A step whose type is none of the five of StepType, between two steps.
        UnknownType ==
            WorkflowTemplate("unknown_type",
                << TriggerStep(<<>>),
                   WorkflowStep("email", "email", DefaultConfig, <<>>),
                   WorkflowStep("notify", "webhook", DefaultConfig, <<>>) >>)
        \* The condition strings: "true", "false", "always", "5 > 3", "3>5",
        \* "trigger_data.priority > 3" (the path does not resolve),
        \* "trigger_data > 3" (the path resolves to a dict), "5 > high".
        ConditionInputs ==
            { <<"true">>, <<"false">>, <<"always">>,
              <<"5", " ", ">", " ", "3">>,
              <<"3", ">", "5">>,
              <<"trigger_data", ".", "priority", " ", ">", " ", "3">>,
              <<"trigger_data", " ", ">", " ", "3">>,
              <<"5", " ", ">", " ", "high">> }
    IN  \/ \E h \in StoreHandlerInputs :
              /\ registrations < MaxRegistrations /\ Started = {}
              /\ register_integration("twilio", h, StoreRetryConfig) /\ CanCall
        \/ \E t \in {Branching, BackJump, NoServiceAction, UnknownType}
                        \cup {Conditions(c) : c \in ConditionInputs} :
              /\ \A id \in DOMAIN templates : templates[id] # NoTemplate
                    => \E e \in Started : executions[e].template_id = id
              /\ register_template(t) /\ UNCHANGED envvars
        \/ \E id \in StepTemplateIds : start_workflow(id) /\ UNCHANGED envvars
        \/ \E e \in ExecIds : DriverStarts(e) /\ UNCHANGED envvars
        \/ \E e \in ExecIds : DriverEntersLoop(e) /\ UNCHANGED envvars
        \/ \E e \in ExecIds : DriverExecutesStep(e) /\ UNCHANGED envvars
        \/ \E e \in ExecIds : DriverActionResumes(e) /\ UNCHANGED envvars
        \/ \E e \in ExecIds : DriverHandlerEnds(e) /\ UNCHANGED envvars
        \/ \E e \in ExecIds : DriverAfterStep(e) /\ UNCHANGED envvars
        \/ \E e \in ExecIds : DriverLeavesLoop(e) /\ UNCHANGED envvars
        \/ \E e \in ExecIds : DriverFinally(e) /\ UNCHANGED envvars

SpecSteps == InitEngineSpec /\ [][NextSteps]_vars

-----------------------------------------------------------------------------
(* The engine running a template whose second Action names the output of  *)
(* the first in its params: one integration, handlers that do not change  *)
(* their mind, no delays, no callbacks.  The integration and the template *)
(* are registered before the first execution is started.                  *)

\* A second Action whose params name the output of the first:
\* {"status": "{{dispatch_sms.status}}"}.
Threading ==
    WorkflowTemplate("threading",
        << TriggerStep(<<>>),
           WorkflowStep("dispatch_sms", "action",
                [DefaultConfig EXCEPT !.service = "twilio",
                                      !.params = DispatchParams], <<>>),
           WorkflowStep("follow_up", "action",
                [DefaultConfig EXCEPT
                    !.service = "twilio",
                    !.params = Dict(<< <<"status">> >>,
                        << Str(<<"{", "{", "dispatch_sms", ".", "status",
                                 "}", "}">>) >>)], <<>>) >>)

NextThreading ==
    \/ \E h \in StoreHandlerInputs :
          /\ registrations < MaxRegistrations /\ Started = {}
          /\ register_integration("twilio", h, StoreRetryConfig) /\ CanCall
    \/ Started = {} /\ register_template(Threading) /\ UNCHANGED envvars
    \/ start_workflow("threading") /\ UNCHANGED envvars
    \/ \E e \in ExecIds : DriverStarts(e) /\ UNCHANGED envvars
    \/ \E e \in ExecIds : DriverEntersLoop(e) /\ UNCHANGED envvars
    \/ \E e \in ExecIds : DriverExecutesStep(e) /\ UNCHANGED envvars
    \/ \E e \in ExecIds : DriverActionResumes(e) /\ UNCHANGED envvars
    \/ \E e \in ExecIds : DriverHandlerEnds(e) /\ UNCHANGED envvars
    \/ \E e \in ExecIds : DriverAfterStep(e) /\ UNCHANGED envvars
    \/ \E e \in ExecIds : DriverLeavesLoop(e) /\ UNCHANGED envvars
    \/ \E e \in ExecIds : DriverFinally(e) /\ UNCHANGED envvars

SpecThreading == InitEngineSpec /\ [][NextThreading]_vars

-----------------------------------------------------------------------------
(* The engine whose caller drops executions that have ended from the      *)
(* in-memory index and asks for them again.  One template of one trigger  *)
(* step, no integration, no callbacks, a database that does not raise.    *)

\* `del engine.executions[id]` for an execution whose driving task has
\* ended: the index of line 195 is a plain dict that nothing else empties.
Evict(e) ==
    /\ CanCall
    /\ driver[e].pc = "done"
    /\ executions[e].status # "absent"
    /\ executions' = [executions EXCEPT ![e] = NoExecution]
    /\ UNCHANGED <<now, breakers, cbvars, imvars, templates, execution_callbacks,
                   db, issued, starter, driver, notified, action_calls, envvars>>

NextEvict ==
    \/ register_template(ShortDispatch) /\ UNCHANGED envvars
    \/ /\ \A e \in ExecIds : driver[e].pc = "none" \/ executions[e].status # "absent"
       /\ StartWorkflowCall("quick_dispatch")
    \/ \E e \in ExecIds : Evict(e)
    \/ \E id \in ExecIds : get_execution_status(id)
    \/ \E e \in ExecIds : DriverStarts(e) /\ UNCHANGED envvars
    \/ \E e \in ExecIds : DriverEntersLoop(e) /\ UNCHANGED envvars
    \/ \E e \in ExecIds : DriverExecutesStep(e) /\ UNCHANGED envvars
    \/ \E e \in ExecIds : DriverAfterStep(e) /\ UNCHANGED envvars
    \/ \E e \in ExecIds : DriverLeavesLoop(e) /\ UNCHANGED envvars
    \/ \E e \in ExecIds : DriverFinally(e) /\ UNCHANGED envvars

SpecEvict == InitEngineSpec /\ [][NextEvict]_vars

-----------------------------------------------------------------------------
(* The engine with two callbacks of which any may suspend while it handles *)
(* `started`: the loop over the callbacks of start_workflow stops at that *)
(* callback and the event loop runs the other tasks.  The callbacks are   *)
(* registered before the first execution is started.  One template of     *)
(* one trigger step, no integration, a database that does not raise.      *)

\* How many callbacks were invoked with `started` for execution e.
started_count(e) ==
    Cardinality({n \in 1..Len(notified[e]) : notified[e][n].event = "started"})

\* Lines 172-176 for `started`: the callback that had suspended returns and
\* the loop invokes the callbacks that follow it, up to callback k, which
\* suspends (or up to the last one).
StartedResumes(e, k) ==
    /\ CanCall
    /\ starter[e] = "notify_started"
    /\ started_count(e) < k /\ k <= execution_callbacks
    /\ notified' = deliver(notified, e, "started", started_count(e) + 1, k)
    /\ UNCHANGED <<now, breakers, cbvars, imvars, templates, executions,
                   execution_callbacks, db, issued, starter, driver, action_calls>>

NextNotify ==
    \/ register_template(ShortDispatch) /\ UNCHANGED envvars
    \/ /\ execution_callbacks < MaxStoreCallbacks
       /\ Started = {}
       /\ add_execution_callback(FALSE)
       /\ UNCHANGED <<db_down, last_call, resolution>>
    \/ \E k \in 1..MaxStoreCallbacks :
          /\ k <= execution_callbacks \/ (k = 1 /\ execution_callbacks = 0)
          /\ start_workflow_up_to("quick_dispatch", k) /\ UNCHANGED envvars
    \/ \E e \in ExecIds, k \in 1..MaxStoreCallbacks :
          StartedResumes(e, k) /\ UNCHANGED envvars
    \/ \E e \in ExecIds :
          /\ started_count(e) = execution_callbacks
          /\ StartReturns(e) /\ UNCHANGED envvars
    \/ \E e \in ExecIds : DriverStarts(e) /\ UNCHANGED envvars
    \/ \E e \in ExecIds : DriverEntersLoop(e) /\ UNCHANGED envvars
    \/ \E e \in ExecIds : DriverExecutesStep(e) /\ UNCHANGED envvars
    \/ \E e \in ExecIds : DriverAfterStep(e) /\ UNCHANGED envvars
    \/ \E e \in ExecIds : DriverLeavesLoop(e) /\ UNCHANGED envvars
    \/ \E e \in ExecIds : DriverFinally(e) /\ UNCHANGED envvars

SpecNotify == InitEngineSpec /\ [][NextNotify]_vars

-----------------------------------------------------------------------------
(* The engine running templates whose explicit successors make a cycle: a *)
(* step that names itself, a last step that names the first.  No         *)
(* integration, no callbacks, a database that does not raise; the task   *)
(* that is created runs and the task that runs gets on.                  *)

\* The event loop runs the task it created and goes on running it: the
\* driving task of e takes its next step.  A step of the loop is run while
\* the list of the task's results is shorter than MaxLoopResults.
LoopTask(e) ==
    /\ \/ DriverStarts(e)
       \/ DriverEntersLoop(e)
       \/ Len(executions[e].step_results) < MaxLoopResults /\ DriverExecutesStep(e)
       \/ DriverAfterStep(e)
       \/ DriverLeavesLoop(e)
       \/ DriverFinally(e)
    /\ UNCHANGED envvars

NextLoop ==
    LET SelfLoop == WorkflowTemplate("self_loop", <<TriggerStep(<<"trigger">>)>>)
        BackCycle ==
            WorkflowTemplate("back_cycle",
                << TriggerStep(<<>>),
                   WorkflowStep("notify", "webhook", DefaultConfig, <<"trigger">>) >>)
    IN  \/ \E t \in {SelfLoop, BackCycle, Branching} :
              register_template(t) /\ UNCHANGED envvars
        \/ \E id \in {"self_loop", "back_cycle", "branching"} :
              start_workflow(id) /\ UNCHANGED envvars
        \/ \E e \in ExecIds : DriverStarts(e) /\ UNCHANGED envvars
        \/ \E e \in ExecIds : DriverEntersLoop(e) /\ UNCHANGED envvars
        \/ \E e \in ExecIds :
              /\ Len(executions[e].step_results) < MaxLoopResults
              /\ DriverExecutesStep(e) /\ UNCHANGED envvars
        \/ \E e \in ExecIds : DriverAfterStep(e) /\ UNCHANGED envvars
        \/ \E e \in ExecIds : DriverLeavesLoop(e) /\ UNCHANGED envvars
        \/ \E e \in ExecIds : DriverFinally(e) /\ UNCHANGED envvars

SpecLoop ==
    /\ InitEngineSpec
    /\ [][NextLoop]_vars
    /\ \A e \in ExecIds : WF_vars(LoopTask(e))

-----------------------------------------------------------------------------
(* The engine with executions that suspend, in Delay steps and in the     *)
(* sleeps between the attempts of their calls, on one integration, with   *)
(* no callbacks.                                                           *)

NextSuspend ==
    \/ Tick /\ CanCall /\ now' <= MaxEngineTime
    \/ \E h \in EngineHandlerInputs, c \in EngineRetryConfigs :
          /\ registrations < MaxRegistrations
          /\ register_integration("twilio", h, c) /\ CanCall
    \/ \E t \in TemplateInputs : register_template(t) /\ UNCHANGED envvars
    \/ \E id \in TemplateIds : start_workflow(id) /\ UNCHANGED envvars
    \/ \E e \in ExecIds : DriverStarts(e) /\ UNCHANGED envvars
    \/ \E e \in ExecIds : DriverEntersLoop(e) /\ UNCHANGED envvars
    \/ \E e \in ExecIds : DriverExecutesStep(e) /\ UNCHANGED envvars
    \/ \E e \in ExecIds : DriverActionResumes(e) /\ UNCHANGED envvars
    \/ \E e \in ExecIds : DriverHandlerEnds(e) /\ UNCHANGED envvars
    \/ \E e \in ExecIds : DriverDelayEnds(e) /\ UNCHANGED envvars
    \/ \E e \in ExecIds : DriverAfterStep(e) /\ UNCHANGED envvars
    \/ \E e \in ExecIds : DriverLeavesLoop(e) /\ UNCHANGED envvars
    \/ \E e \in ExecIds : DriverFinally(e) /\ UNCHANGED envvars

SpecSuspend == InitEngineSpec /\ [][NextSuspend]_vars

-----------------------------------------------------------------------------
(* The Variable Resolver called on its own                                 *)

\* The dotted paths of up to MaxPathLen segments, as sequences of segments.
Paths == UNION {[1..n -> {"a", "b", "c"}] : n \in 1..MaxPathLen}

\* "a.b.c" for <<"a", "b", "c">>
RECURSIVE dotted(_)
dotted(path) ==
    IF Len(path) = 1 THEN <<path[1]>>
    ELSE <<path[1], ".">> \o dotted(Tail(path))

\* "{{a.b.c}}"
Placeholder(path) == Str(<<"{", "{">> \o dotted(path) \o <<"}", "}">>)

\* A caller resolves data against context.
ResolverCalled(data, context) ==
    /\ resolution.calls = 0
    /\ resolution' = Resolution(1, data, context,
                                replace_variables(data, context), EmptyDict)
    /\ UNCHANGED <<now, breakers, cbvars, imvars, templates, executions,
                   execution_callbacks, db, starter, driver, notified,
                   action_calls, issued, db_down, raising, last_call>>

\* The caller resolves what it got against the same context.
ResolverCalledAgain ==
    /\ resolution.calls = 1
    /\ resolution' = [resolution EXCEPT
                        !.calls = 2,
                        !.twice = replace_variables(resolution.once,
                                                    resolution.context)]
    /\ UNCHANGED <<now, breakers, cbvars, imvars, templates, executions,
                   execution_callbacks, db, starter, driver, notified,
                   action_calls, issued, db_down, raising, last_call>>

NextResolver ==
    LET \* The data resolved: every placeholder of Paths; "x {{a}} y",
        \* "{{a}} {{b}}", "{{ a.b }}", "x", "", "{x}", 7, True; the params of the
        \* steps of QuickDispatch; lists and dicts of those.
        ResolverData ==
            LET EmbeddedVariable == Str(<<"x", " ", "{", "{", "a", "}", "}", " ", "y">>)
                TwoVariables == Str(<<"{", "{", "a", "}", "}", " ", "{", "{", "b", "}", "}">>)
                SpacedVariable == Str(<<"{", "{", " ", "a", ".", "b", " ", "}", "}">>)
            IN  {Placeholder(path) : path \in Paths}
                    \cup {EmbeddedVariable, TwoVariables, SpacedVariable,
                           Str(<<"x">>), Str(<<>>), Str(<<"{", "x", "}">>),
                           Number(7), Bool(TRUE)}
                    \cup {DispatchParams, FollowUpParams,
                           List(<<Str(<<"x">>), Number(7), EmbeddedVariable>>),
                           List(<<Placeholder(<<"a", "b">>), Placeholder(<<"a", "c">>)>>),
                           Dict(<< <<"k">>, <<"j">> >>,
                                << List(<<Bool(TRUE), Str(<<"x">>)>>), TwoVariables >>),
                           Dict(<< <<"j">>, <<"k">> >>,
                                << Number(7), Dict(<< <<"i">> >>, << Str(<<>>) >>) >>)}
        \* {"a": {"b": 1}}; {"a": 5, "b": "x"}; {}; {"a": {"b": {"c": "{{a}}"}},
        \* "c": ["x"]}; and the context of an execution started with TriggerData.
        ResolverContexts ==
            {Dict(<< <<"a">> >>, << Dict(<< <<"b">> >>, << Number(1) >>) >>),
             Dict(<< <<"a">>, <<"b">> >>, << Number(5), Str(<<"x">>) >>),
             EmptyDict,
             Dict(<< <<"a">>, <<"c">> >>,
                  << Dict(<< <<"b">> >>,
                          << Dict(<< <<"c">> >>, << Placeholder(<<"a">>) >>) >>),
                     List(<<Str(<<"x">>)>>) >>),
             WorkflowExecution("quick_dispatch", UserId, TriggerData).context}
    IN  \/ \E data \in ResolverData, context \in ResolverContexts :
              ResolverCalled(data, context)
        \/ ResolverCalledAgain

SpecResolver == InitEngineSpec /\ [][NextResolver]_vars

-----------------------------------------------------------------------------
(* Claims about executions: the status transitions, checked under         *)
(* SpecEngine, and the end-to-end runs of QuickDispatch, checked under     *)
(* SpecSuspend                                                             *)

Ended(e) == driver[e].pc = "done"

\* The index of the template's first Action step, 0 if it has none.
FirstAction(template) ==
    LET found == {i \in 1..Len(template.steps) : template.steps[i].type = "action"}
    IN  IF found = {} THEN 0
        ELSE CHOOSE i \in found : \A j \in found : i <= j

\* C1: every change of an execution's status is its creation as Pending or
\* one of Pending -> Running, Running -> Completed, Running -> Failed.
C1_StatusTransitions ==
    [][\A e \in ExecIds :
        executions'[e].status # executions[e].status
            => <<executions[e].status, executions'[e].status>>
                    \in {<<"absent", "pending">>, <<"pending", "running">>,
                         <<"running", "completed">>, <<"running", "failed">>}
    ]_vars

\* C1 witness: one execution has ended Completed and another Failed.
C1_Witness ==
    \E e, x \in ExecIds :
        /\ Ended(e) /\ executions[e].status = "completed"
        /\ Ended(x) /\ executions[x].status = "failed"

\* C8: an execution of [Trigger, Action, Delay(0), Action] whose Action calls
\* all found a registered handler that always succeeds has ended Completed
\* with exactly 4 StepResults, all completed, their step ids in template
\* order.
C8_QuickDispatchCompletes ==
    \A e \in ExecIds :
        LET ex == executions[e]
            calls == action_calls[e]
        IN  (Ended(e) /\ driver[e].template = QuickDispatch
                /\ \A i \in 1..Len(calls) : calls[i].start.handler.kind = "ok")
                => /\ ex.status = "completed"
                   /\ Len(ex.step_results) = 4
                   /\ \A i \in 1..4 :
                        /\ ex.step_results[i].status = "completed"
                        /\ ex.step_results[i].step_id = QuickDispatch.steps[i].id

\* C8 witness: such an execution has ended, both its Action calls made.
C8_Witness ==
    \E e \in ExecIds :
        /\ Ended(e) /\ driver[e].template = QuickDispatch
        /\ Len(action_calls[e]) = 2
        /\ \A i \in 1..2 : action_calls[e][i].start.handler.kind = "ok"
        /\ Len(executions[e].step_results) = 4

\* The first Action call of e found a freshly registered handler that fails
\* twice and then succeeds, under max_attempts = 3, and ran with no other
\* call or registration on the integration; the later Action calls of e were
\* made under the same registration.
FlakyScenario(e) ==
    LET calls == action_calls[e]
    IN  /\ Ended(e)
        /\ Len(calls) >= 1
        /\ calls[1].start.handler = Handler("flaky", FlakyFailures)
        /\ calls[1].config.max_attempts = DefaultMaxAttempts
        /\ calls[1].alone
        /\ \A i \in 1..Len(calls) :
              calls[i].breaker = calls[1].breaker /\ ~calls[i].swapped

\* C9: in that scenario the handler was invoked exactly 3 times by the first
\* Action call, whose result has success=true and attempt=3; the Action's
\* StepResult is completed with the handler's return value as output; and
\* the execution has ended Completed.
C9_FlakyActionCompletes ==
    \A e \in ExecIds :
        LET ex == executions[e]
            call == action_calls[e][1]
            k == FirstAction(driver[e].template)
        IN  FlakyScenario(e)
                => /\ call.invoked = FlakyFailures + 1
                   /\ call.result.success
                   /\ call.result.attempt = FlakyFailures + 1
                   /\ ex.step_results[k].step_id = driver[e].template.steps[k].id
                   /\ ex.step_results[k].status = "completed"
                   /\ ex.step_results[k].output
                        = handler_return([Handler("flaky", FlakyFailures)
                                            EXCEPT !.calls = FlakyFailures + 1])
                   /\ ex.status = "completed"

\* C9 witness: an execution in that scenario has ended Completed after both
\* Actions of [Trigger, Action, Delay(0), Action].
C9_Witness ==
    \E e \in ExecIds :
        /\ FlakyScenario(e)
        /\ driver[e].template = QuickDispatch
        /\ Len(action_calls[e]) = 2
        /\ executions[e].status = "completed"

\* The first Action call of e found a handler that always fails, under
\* max_attempts = 3, and no registration replaced the handler during it.
FailingScenario(e) ==
    LET calls == action_calls[e]
    IN  /\ Ended(e)
        /\ Len(calls) >= 1
        /\ calls[1].start.handler.kind = "fail"
        /\ calls[1].config.max_attempts = DefaultMaxAttempts
        /\ ~calls[1].swapped

\* The execution ended Failed at its first Action step.
FailedAtFirstAction(e) ==
    LET ex == executions[e]
        k == FirstAction(driver[e].template)
    IN  /\ ex.status = "failed"
        /\ Len(ex.step_results) = k
        /\ ex.step_results[k].step_id = driver[e].template.steps[k].id
        /\ ex.step_results[k].status = "failed"
        /\ ex.error_message = ex.step_results[k].error
        /\ ex.error_message.kind = "action_failed"
        /\ ex.error_message.attempts = DefaultMaxAttempts

-----------------------------------------------------------------------------
(* Claims about the engine and its collaborators, checked under SpecStore  *)

\* C11: a call of start_workflow with a template id that is not registered
\* raises the template-not-found error and changes nothing: no entry is added
\* to the execution index, no persistence create is issued, no notification
\* is emitted, no driving task is created and no call is left to return an id.
C11_UnknownTemplateRaises ==
    [][\A id \in TemplateIds :
        (/\ last_call' # last_call
         /\ last_call'.op = "start_workflow"
         /\ last_call'.template_id = id
         /\ templates[id] = NoTemplate)
            => /\ last_call'.result = "template_not_found"
               /\ UNCHANGED <<templates, executions, db, issued, notified,
                              driver, starter, action_calls>>
    ]_vars

\* C11 witness: start_workflow has just raised template-not-found in an
\* engine that has a template registered and an execution under way.
C11_Witness ==
    /\ last_call.op = "start_workflow"
    /\ last_call.result = "template_not_found"
    /\ templates[last_call.template_id] = NoTemplate
    /\ \E id \in TemplateIds : templates[id] # NoTemplate
    /\ Started # {}

\* The call of start_workflow that created e has returned e's id.
Returned(e) == starter[e] = "returned"

\* C12: every call of start_workflow with a registered template id returns
\* an execution id, whether or not the driving task ever gets through its
\* first step; once it has returned, the execution is in the index, and
\* every call of get_execution_status with that id returns that execution
\* without reading the database.
C12_StartReturnsAndStaysFound ==
    /\ \A e \in ExecIds : (starter[e] # "none") ~> Returned(e)
    /\ [](\A e \in ExecIds : Returned(e) => executions[e].status # "absent")
    /\ [][\A e \in ExecIds :
            (/\ Returned(e)
             /\ last_call' # last_call
             /\ last_call'.op = "get_execution_status"
             /\ last_call'.id = e)
                => /\ last_call'.result = "found"
                   /\ ~last_call'.read
                   /\ last_call'.execution = executions[e]
       ]_vars

\* C12 witness: start_workflow has returned while the driving task has not
\* run at all, and get_execution_status has returned the Pending execution.
C12_Witness ==
    \E e \in ExecIds :
        /\ Returned(e)
        /\ driver[e].pc = "spawned"
        /\ last_call.op = "get_execution_status"
        /\ last_call.id = e
        /\ last_call.result = "found"
        /\ last_call.execution.status = "pending"

\* C13: register_template with an id that is already registered leaves the
\* template stored under that id as it is; a registered template is never
\* replaced.
C13_TemplateNeverReplaced ==
    [][\A id \in TemplateIds :
        templates[id] # NoTemplate => templates'[id] = templates[id]
    ]_vars

\* How many times callback i was invoked with this event for execution e.
Notifications(e, i, event) ==
    Cardinality({k \in 1..Len(notified[e]) :
                    notified[e][k].callback = i /\ notified[e][k].event = event})

\* C14: for every execution that has ended and every callback that was
\* registered when it began to run, an execution ended Completed caused
\* exactly one `completed` notification and no `failed` one, and an execution
\* ended Failed exactly one `failed` notification and no `completed` one.
C14_OneTerminalNotification ==
    \A e \in ExecIds : \A i \in 1..execution_callbacks :
        (Ended(e) /\ Notifications(e, i, "running") = 1)
            => /\ executions[e].status = "completed"
                    => /\ Notifications(e, i, "completed") = 1
                       /\ Notifications(e, i, "failed") = 0
               /\ executions[e].status = "failed"
                    => /\ Notifications(e, i, "failed") = 1
                       /\ Notifications(e, i, "completed") = 0

\* C15: once the driving task of an execution has ended, the last update
\* issued for its id carries the terminal status (Completed or Failed), a set
\* completed_at, a null current_step_id, the whole list of step results and
\* the error message of the execution (that of the failed step for Failed,
\* none for Completed); and no write for that id is issued afterwards.
C15_FinalUpdateIsLast ==
    /\ [](\A e \in ExecIds :
            LET ex == executions[e]
                last == issued[e].last
            IN  Ended(e)
                    => /\ last.status \in {"completed", "failed"}
                       /\ last.status = ex.status
                       /\ last.completed_at # None
                       /\ last.current_step_id = "none"
                       /\ last.step_results = ex.step_results
                       /\ last.error_message = ex.error_message
                       /\ last.error_message
                            = IF ex.status = "failed"
                              THEN ex.step_results[Len(ex.step_results)].error
                              ELSE NoError)
    /\ [][\A e \in ExecIds : Ended(e) => issued'[e] = issued[e]]_vars

\* C15 witness: an execution has ended Failed at its second step after five
\* updates or more, and its callers and the database have gone on.
C15_Witness ==
    \E e \in ExecIds :
        /\ Ended(e)
        /\ issued[e].last.status = "failed"
        /\ Len(issued[e].last.step_results) = 2
        /\ issued[e].updates >= 5
        /\ last_call.op = "get_execution_status"
        /\ last_call.id = e
        /\ last_call.execution.completed_at # None

\* The call an Action step made found no handler, or all its attempts failed.
CallFailed(f) == f.pc = "raised" \/ ~f.result.success

\* The status, error message and (step id, status) pairs with which a run of
\* the template ends when no persistence call and no callback raises, given
\* the calls its Action steps made: the walk from step i, the k-th call next.
RECURSIVE RunFrom(_, _, _, _, _)
RunFrom(template, calls, i, k, pairs) ==
    IF i = 0
    THEN [status |-> "completed", error_message |-> NoError, pairs |-> pairs]
    ELSE LET step == template.steps[i]
         IN  IF step.type = "action" /\ CallFailed(calls[k])
             THEN [status |-> "failed",
                   error_message |->
                        IF calls[k].pc = "raised"
                        THEN [kind |-> "not_registered", service |-> calls[k].service]
                        ELSE action_error(calls[k].result),
                   pairs |-> Append(pairs, <<step.id, "failed">>)]
             ELSE RunFrom(template, calls, get_next_step(i, template),
                          IF step.type = "action" THEN k + 1 ELSE k,
                          Append(pairs, <<step.id, "completed">>))

PlainRun(e) ==
    RunFrom(driver[e].template, action_calls[e],
            IF driver[e].template.steps = <<>> THEN 0 ELSE 1, 1, <<>>)

\* The execution ended as the run where nothing raises ends.
EndedAsPlainRun(e) ==
    LET ex == executions[e]
    IN  /\ ex.status = PlainRun(e).status
        /\ ex.error_message = PlainRun(e).error_message
        /\ [i \in 1..Len(ex.step_results) |->
                <<ex.step_results[i].step_id, ex.step_results[i].status>>]
              = PlainRun(e).pairs

\* C16: whichever calls of create_execution and update_execution raise, the
\* call of start_workflow goes on to create the driving task and to return,
\* and an execution that has ended has the final status, the error message
\* and the sequence of step ids and step statuses of the run where no
\* persistence call raises.
C16_PersistenceFailuresChangeNothing ==
    \A e \in ExecIds :
        /\ issued[e].creates = 1
                => /\ starter[e] \in {"notify_started", "returned"}
                   /\ executions[e].status # "absent"
                   /\ driver[e].pc # "none"
        /\ Ended(e) => Returned(e) \/ starter[e] = "notify_started"
        /\ Ended(e) => EndedAsPlainRun(e)

\* C16 witness: an execution whose create raised, and updates too, has ended
\* Completed with its four step results, its start call returned.
C16_Witness ==
    \E e \in ExecIds :
        /\ Ended(e) /\ Returned(e)
        /\ issued[e].create_raised /\ issued[e].update_raised
        /\ db[e].status = "absent"
        /\ executions[e].status = "completed"
        /\ Len(executions[e].step_results) = 4

\* C18: callbacks that raise change nothing.  Every notification reaches
\* every callback of the list in order, those after a raising one included;
\* a call of start_workflow with a registered template creates its execution
\* and gives its caller no exception; and an execution that has ended has the
\* final status, the error message and the sequence of step ids and step
\* statuses of the run where no callback raises.
C18_RaisingCallbacksChangeNothing ==
    /\ [](\A e \in ExecIds :
            Ended(e) => /\ EndedAsPlainRun(e)
                        /\ starter[e] \in {"notify_started", "returned"})
    /\ [][\A e \in ExecIds :
            LET before == Len(notified[e])
                event == notified'[e][before + 1].event
            IN  notified'[e] # notified[e]
                    => /\ Len(notified'[e]) = before + execution_callbacks
                       /\ \A i \in 1..before : notified'[e][i] = notified[e][i]
                       /\ \A i \in 1..execution_callbacks :
                            notified'[e][before + i]
                                = [callback |-> i, event |-> event,
                                   raised |-> i \in raising]
                       /\ event = "started"
                            => /\ last_call'.result = "execution"
                               /\ starter'[e] = "notify_started"
                               /\ driver'[e].pc = "spawned"
       ]_vars

\* C18 witness: with two callbacks of which the first raises, an execution
\* has ended Completed after its four steps, its start call has returned,
\* and the second callback was invoked with started, running and completed.
C18_Witness ==
    \E e \in ExecIds :
        /\ execution_callbacks = 2 /\ raising = {1}
        /\ Ended(e) /\ Returned(e)
        /\ executions[e].status = "completed"
        /\ Len(executions[e].step_results) = 4
        /\ \A event \in {"started", "running", "completed"} :
              /\ Notifications(e, 1, event) = 1
              /\ Notifications(e, 2, event) = 1

\* C19: a call of get_execution_status with an id that is not in the index
\* reads the database.  When the read returns a row, the call returns an
\* execution with the row's status, step results, current step id, error
\* message and timestamps, and the index holds that execution under the id;
\* when the read returns no row or raises, the call returns not-found and the
\* index is unchanged.  A call with an id that is in the index returns the
\* indexed execution and does not read the database.
C19_StatusFromDatabase ==
    [][\A id \in AllIds :
        (/\ last_call' # last_call
         /\ last_call'.op = "get_execution_status"
         /\ last_call'.id = id)
            => LET got == last_call'.execution
                   row == db[id]
               IN  IF executions[id].status # "absent"
                   THEN /\ ~last_call'.read
                        /\ last_call'.result = "found"
                        /\ got = executions[id]
                        /\ executions' = executions
                   ELSE /\ last_call'.read
                        /\ IF row.status # "absent" /\ ~db_down
                           THEN /\ last_call'.result = "found"
                                /\ got.status = row.status
                                /\ got.step_results = row.step_results
                                /\ got.current_step_id = row.current_step_id
                                /\ got.error_message = row.error_message
                                /\ got.started_at = row.started_at
                                /\ got.completed_at = row.completed_at
                                /\ executions'[id] = got
                                /\ \A x \in AllIds \ {id} :
                                        executions'[x] = executions[x]
                           ELSE /\ last_call'.result = "not_found"
                                /\ executions' = executions
    ]_vars

\* C19 witness: the execution of an earlier run was loaded from the database
\* into the index, and a later call has returned it without a read while
\* the database was out of order.
C19_Witness ==
    \E id \in StoredIds :
        /\ last_call.op = "get_execution_status"
        /\ last_call.id = id
        /\ last_call.result = "found"
        /\ ~last_call.read
        /\ db_down
        /\ executions[id] = reconstruct(db[id])
        /\ executions[id].status = "running"

\* C19 witness of the other branch: a call for the stored id has returned
\* not-found after a read that raised, the row being there.
C19_WitnessNotFound ==
    \E id \in StoredIds :
        /\ last_call.op = "get_execution_status"
        /\ last_call.id = id
        /\ last_call.result = "not_found"
        /\ last_call.read
        /\ db[id].status # "absent"
        /\ executions[id].status = "absent"

-----------------------------------------------------------------------------
(* Claims about persistence writes of interleaved executions, checked      *)
(* under SpecEngine                                                        *)

\* The writes issued for e so far.
Writes(e) == issued[e].creates + issued[e].updates

\* C17: for each execution id the first write issued is the one create, and
\* every write is issued by the start call or the driving task of that
\* execution, one at a time, and is through (applied, or raised and caught)
\* before that task gives way to any other: after each step the row holds
\* the dict of the last update issued, as long as no write for the id raised.
C17_WritesInIssueOrder ==
    /\ [](\A e \in ExecIds :
            /\ issued[e].first \in {"none", "create"}
            /\ issued[e].creates <= 1
            /\ issued[e].updates > 0 => issued[e].creates = 1
            /\ (issued[e].updates > 0 /\ ~issued[e].create_raised
                    /\ ~issued[e].update_raised)
                    => /\ db[e].status = issued[e].last.status
                       /\ db[e].step_results = issued[e].last.step_results
                       /\ db[e].current_step_id = issued[e].last.current_step_id
                       /\ db[e].error_message = issued[e].last.error_message
                       /\ db[e].completed_at = issued[e].last.completed_at)
    /\ [][\A e \in ExecIds :
            issued'[e] # issued[e]
                => /\ Writes(e)' = Writes(e) + 1
                   /\ \A x \in ExecIds \ {e} : issued'[x] = issued[x] /\ db'[x] = db[x]
                   /\ IF issued'[e].creates # issued[e].creates
                      THEN starter[e] = "none" /\ starter'[e] # "none"
                      ELSE driver'[e] # driver[e] /\ CanRun(e)
       ]_vars

\* C17 witness: two executions each wait for a handler, each with its
\* create and three updates or more issued; one of them runs the delayed
\* template and had an update raise.
C17_Witness ==
    /\ \A e \in ExecIds :
            /\ driver[e].pc = "in_action"
            /\ issued[e].creates = 1
            /\ issued[e].updates >= 3
    /\ \E e \in ExecIds :
            /\ driver[e].template = DelayedFollowUp
            /\ issued[e].update_raised

-----------------------------------------------------------------------------
(* Claims about Actions whose service is not registered, checked under     *)
(* SpecSuspend                                                             *)

\* How many of the first n steps of the template are Actions.
ActionsUpTo(template, n) ==
    Cardinality({i \in 1..n : template.steps[i].type = "action"})

\* C20: when an Action step of an execution named a service that was not
\* registered, the start call had created the execution all the same, the
\* step's StepResult is failed with the not-registered error and is the last
\* one, no later Action call was made, and the execution, once its task has
\* ended, is Failed with that error as its error_message.
C20_UnregisteredServiceFailsInTask ==
    \A e \in ExecIds : \A k \in 1..Len(action_calls[e]) :
        LET ex == executions[e]
            n == Len(ex.step_results)
            template == driver[e].template
        IN  action_calls[e][k].pc = "raised"
                => /\ starter[e] \in {"notify_started", "returned"}
                   /\ ex.status \in {"running", "failed"}
                   /\ k = Len(action_calls[e])
                   /\ n >= 1
                   /\ ex.step_results[n].status = "failed"
                   /\ ex.step_results[n].error
                        = [kind |-> "not_registered",
                           service |-> action_calls[e][k].service]
                   /\ \E i \in 1..Len(template.steps) :
                        /\ template.steps[i].id = ex.step_results[n].step_id
                        /\ template.steps[i].type = "action"
                        /\ template.steps[i].config.service = action_calls[e][k].service
                        /\ ActionsUpTo(template, i) = k
                   /\ \A i \in 1..(n - 1) : ex.step_results[i].status = "completed"
                   /\ driver[e].pc \in {"after_step", "after_loop", "done"}
                   /\ driver[e].pc # "after_step" => ex.status = "failed"
                   /\ Ended(e) => /\ ex.status = "failed"
                                   /\ ex.error_message = ex.step_results[n].error

\* C20 witness: an execution of [Trigger, Action, Delay(0), Action] has ended
\* Failed at its first Action, whose service twilio was not registered, with
\* two step results, its start call returned.
C20_Witness ==
    \E e \in ExecIds :
        /\ Ended(e) /\ Returned(e)
        /\ driver[e].template = QuickDispatch
        /\ Len(action_calls[e]) = 1
        /\ action_calls[e][1].pc = "raised"
        /\ action_calls[e][1].service = "twilio"
        /\ executions[e].status = "failed"
        /\ executions[e].error_message.kind = "not_registered"
        /\ Len(executions[e].step_results) = 2

-----------------------------------------------------------------------------
(* Claims about the Variable Resolver, checked under SpecResolver          *)

\* The path can be followed in value from its i-th segment on: every
\* segment is a key of the mapping reached before it.
RECURSIVE Follows(_, _, _)
Follows(value, path, i) ==
    IF i > Len(path) THEN TRUE
    ELSE /\ value.kind = "dict"
         /\ has_key(value, <<path[i]>>)
         /\ Follows(get_item(value, <<path[i]>>), path, i + 1)

\* C21: a placeholder string {{p}} whose dotted path p cannot be followed in
\* the context resolves to the placeholder text {{p}} itself, braces
\* included.
C21_UnresolvedPlaceholderKept ==
    \A path \in Paths :
        (/\ resolution.calls >= 1
         /\ resolution.data = Placeholder(path)
         /\ ~Follows(resolution.context, path, 1))
            => resolution.once = Placeholder(path)

\* The characters are a dotted path: names separated by single dots.
IsDottedPath(chars) ==
    /\ Len(chars) % 2 = 1
    /\ \A i \in 1..Len(chars) :
          IF i % 2 = 1 THEN chars[i] \notin {"{", "}", ".", " "}
          ELSE chars[i] = "."

\* The string is one whole placeholder {{<dotted.path>}}, white space around
\* the path allowed.
IsPlaceholder(chars) ==
    /\ startswith(chars, <<"{", "{">>)
    /\ endswith(chars, <<"}", "}">>)
    /\ IsDottedPath(strip(SubSeq(chars, 3, Len(chars) - 2)))

\* The value is or contains a string that is one whole placeholder.
RECURSIVE HasPlaceholder(_)
HasPlaceholder(value) ==
    IF value.kind = "str" THEN IsPlaceholder(value.chars)
    ELSE \E i \in 1..Len(value.vals) : HasPlaceholder(value.vals[i])

\* C22: a value that contains no string that is one whole placeholder is
\* returned as it is, so that resolving it twice gives what resolving it
\* once gives.
C22_OtherValuesUnchanged ==
    (resolution.calls >= 1 /\ ~HasPlaceholder(resolution.data))
        => /\ resolution.once = resolution.data
           /\ resolution.calls = 2 => resolution.twice = resolution.once

-----------------------------------------------------------------------------
(* Claims about the params of Action calls, checked under SpecSuspend      *)

\* C23: when the Action steps of a template have the param to =
\* "{{customer_phone}}" and the execution was started with trigger data that
\* has the key customer_phone, every Action call that invoked the handler
\* handed it params whose `to` is the customer_phone of the trigger data.
C23_HandlerGetsCustomerPhone ==
    \A e \in ExecIds : \A k \in 1..Len(action_calls[e]) :
        LET f == action_calls[e][k]
            trigger_data == get_item(executions[e].context, <<"trigger_data">>)
        IN  (f.invoked >= 1 /\ has_key(trigger_data, <<"customer_phone">>))
                => get_item(f.params, <<"to">>)
                        = get_item(trigger_data, <<"customer_phone">>)

-----------------------------------------------------------------------------
(* Claims about register_integration, checked under SpecRegistry           *)

\* The name that a register_integration step registered: the one whose
\* breaker is the one the step created.
RegisteredBy(name) ==
    /\ registrations' = registrations + 1
    /\ circuit_breakers'[name] = Len(breakers) + 1

\* C24: right after register_integration(name, ...) the breaker registered
\* under name is a new one, Closed with failure counter 0, the stats of name
\* are success_count 0, error_count 0 and last_used unset, and its handler
\* has not been invoked, whatever they were before; the handler, stats,
\* retry policy and breaker of every other name are what they were.
C24_ReRegistrationResets ==
    [][\A name \in Services : RegisteredBy(name) =>
          /\ Len(breakers') = Len(breakers) + 1
          /\ breakers'[circuit_breakers'[name]].state = "closed"
          /\ breakers'[circuit_breakers'[name]].failure_count = 0
          /\ integrations'[name].success_count = 0
          /\ integrations'[name].error_count = 0
          /\ integrations'[name].last_used = None
          /\ handlers'[name].calls = 0
          /\ \A other \in Services \ {name} :
                /\ handlers'[other] = handlers[other]
                /\ integrations'[other] = integrations[other]
                /\ retry_configs'[other] = retry_configs[other]
                /\ circuit_breakers'[other] = circuit_breakers[other]
          /\ \A b \in 1..Len(breakers) : breakers'[b] = breakers[b]
    ]_vars

\* C24 witness: twilio was registered, its calls opened its breaker and
\* counted errors, sendgrid was registered and called with success, and
\* twilio was registered again: its breaker is the third one, Closed, its
\* stats are zero, the breaker it had before is still Open, and sendgrid
\* keeps its success.
C24_Witness ==
    /\ registrations = 3
    /\ circuit_breakers["twilio"] = 3
    /\ breakers[3].state = "closed"
    /\ integrations["twilio"].error_count = 0
    /\ \E b \in 1..2 :
          /\ b # circuit_breakers["sendgrid"]
          /\ breakers[b].state = "open"
    /\ integrations["sendgrid"].success_count = 1
    /\ \A t \in Tasks : ~Active(im_call[t])

-----------------------------------------------------------------------------
(* Claims about the driving loop's steps, checked under SpecSteps          *)

\* The driving task of e takes the step of the loop that follows a step
\* result which is not failed.
ChoosesNext(e) ==
    /\ driver[e].pc = "after_step"
    /\ driver'[e] # driver[e]
    /\ executions[e].step_results[Len(executions[e].step_results)].status # "failed"

\* The positions in steps of the steps whose id is id.
Positions(steps, id) == {i \in 1..Len(steps) : steps[i].id = id}

\* The ids of the steps of the results of an execution, in order.
ResultIds(ex) == [i \in 1..Len(ex.step_results) |-> ex.step_results[i].step_id]

\* C25: after a step that did not fail, the loop goes on with the step whose
\* id is the current step's first explicit successor when it has
\* successors, else with the step that follows the current one in template
\* order; when there is no such step (the current step is the last one, or
\* the successor is the id of no step) the loop is left, and the execution
\* that left the loop Running becomes Completed.
C25_NextStep ==
    [][\A e \in ExecIds :
        LET steps == driver[e].template.steps
            i == driver[e].step
            targets == IF steps[i].next_steps # <<>>
                       THEN Positions(steps, steps[i].next_steps[1])
                       ELSE {i + 1} \cap (1..Len(steps))
        IN  /\ ChoosesNext(e) =>
                IF targets # {}
                THEN /\ driver'[e].pc = "at_step"
                     /\ driver'[e].step \in targets
                     /\ executions'[e].current_step_id = steps[driver'[e].step].id
                     /\ executions'[e].status = "running"
                ELSE /\ driver'[e].pc = "after_loop"
                     /\ executions'[e].status = "running"
            /\ (/\ driver[e].pc = "after_loop"
                /\ driver'[e] # driver[e]
                /\ executions[e].status = "running")
                    => executions'[e].status = "completed"
    ]_vars

\* C25 witness: an execution of BackJump went from the trigger forward to
\* its explicit successor, back to that step's explicit successor, found no
\* step for the successor of the Action and is Completed; an execution of
\* a Conditions template took its three steps in template order and is
\* Completed.
C25_Witness ==
    \E e, o \in ExecIds :
        /\ executions[e].template_id = "back_jump"
        /\ executions[e].status = "completed"
        /\ ResultIds(executions[e]) = <<"trigger", "notify", "dispatch_sms">>
        /\ executions[o].template_id = "conditions"
        /\ executions[o].status = "completed"
        /\ ResultIds(executions[o]) = <<"trigger", "check", "notify">>

\* The condition strings of ConditionInputs whose comparison has an operand
\* that is no number.
ParseErrorConditions ==
    { <<"trigger_data", ".", "priority", " ", ">", " ", "3">>,
      <<"trigger_data", " ", ">", " ", "3">>,
      <<"5", " ", ">", " ", "high">> }

\* The handler of the step raises whatever the integrations do.
HandlerMustRaise(step) ==
    \/ step.type = "action" /\ step.config.service = NoService
    \/ step.type \notin {"trigger", "action", "delay", "condition", "webhook"}
    \/ step.type = "condition" /\ step.config.condition \in ParseErrorConditions

\* The k-th Action call of e is the call of the step of its i-th result, and
\* it failed overall or raised.
FailedCallOf(e, i) ==
    LET k == Len(action_calls[e])
    IN  /\ k >= 1
        /\ i = Len(executions[e].step_results)
        /\ driver[e].template.steps[CHOOSE p \in
                Positions(driver[e].template.steps,
                          executions[e].step_results[i].step_id) : TRUE].type = "action"
        /\ \/ action_calls[e][k].pc = "raised"
           \/ action_calls[e][k].pc = "returned" /\ ~action_calls[e][k].result.success

\* C26: the result of a step whose handler raises (an Action without
\* config.service, a step of unknown type, a Condition whose operand is no
\* number, an Action whose integration call failed overall) is failed; a
\* failed result is the last one, the loop is left after it and the
\* execution is then Failed with the result's error as its error_message,
\* and stays so once the task has ended; after a failed result the list of
\* step results never changes, so no further step runs and the earlier
\* results stay as they were; an execution whose template has only Actions
\* without config.service makes no call of the integration manager, so no
\* handler is invoked for it.
C26_RaisingStepFailsExecution ==
    /\ [](\A e \in ExecIds :
            LET ex == executions[e]
                n == Len(ex.step_results)
                steps == driver[e].template.steps
            IN  /\ \A i \in 1..n :
                    LET r == ex.step_results[i]
                        step == steps[CHOOSE p \in Positions(steps, r.step_id) : TRUE]
                    IN  /\ Positions(steps, r.step_id) # {}
                        /\ (HandlerMustRaise(step) \/ FailedCallOf(e, i))
                                => r.status = "failed"
                        /\ r.status = "failed"
                                => /\ i = n
                                   /\ r.error # NoError
                                   /\ driver[e].pc \in {"after_step", "after_loop", "done"}
                                   /\ driver[e].pc # "after_step"
                                        => /\ ex.status = "failed"
                                           /\ ex.error_message = r.error
                /\ (\A p \in 1..Len(steps) :
                        steps[p].type = "action" => steps[p].config.service = NoService)
                        => action_calls[e] = <<>>)
    /\ [][\A e \in ExecIds :
            LET results == executions[e].step_results
            IN  (results # <<>> /\ results[Len(results)].status = "failed")
                    => executions'[e].step_results = results
       ]_vars

\* C26 witness: an execution of NoServiceAction has ended Failed at its
\* Action, after the trigger's completed result, with no call of the manager;
\* an execution of a Conditions template has ended Failed at its Condition,
\* whose operand was no number.
C26_Witness ==
    \E e, o \in ExecIds :
        /\ driver[e].pc = "done" /\ driver[o].pc = "done"
        /\ driver[e].template = NoServiceAction
        /\ executions[e].status = "failed"
        /\ ResultIds(executions[e]) = <<"trigger", "dispatch_sms">>
        /\ executions[e].step_results[1].status = "completed"
        /\ executions[e].error_message = [kind |-> "no_service"]
        /\ action_calls[e] = <<>>
        /\ driver[o].template.id = "conditions"
        /\ executions[o].status = "failed"
        /\ ResultIds(executions[o]) = <<"trigger", "check">>
        /\ executions[o].error_message = [kind |-> "not_a_number"]

\* C27: the step_results of an execution change only by one entry appended
\* at the end, for the step the driving loop is executing (the one it set
\* current_step_id to), once for each step the loop enters; and in every
\* state every entry but the last is completed, the last completed or
\* failed.
C27_StepResultsAppendOnly ==
    /\ [](\A e \in ExecIds :
            LET results == executions[e].step_results
            IN  \A i \in 1..Len(results) :
                    /\ results[i].status \in {"completed", "failed"}
                    /\ i < Len(results) => results[i].status = "completed")
    /\ [][\A e \in ExecIds :
            LET results == executions[e].step_results
                after == executions'[e].step_results
            IN  after # results
                    => /\ Len(after) = Len(results) + 1
                       /\ SubSeq(after, 1, Len(results)) = results
                       /\ driver[e].pc \in {"at_step", "in_action", "in_delay"}
                       /\ driver'[e].pc = "after_step"
                       /\ after[Len(after)].step_id = executions[e].current_step_id
                       /\ after[Len(after)].step_id
                            = driver[e].template.steps[driver[e].step].id
       ]_vars

\* C27 witness: an execution of BackJump has ended with three results in
\* the order its steps ran, the first two completed and the last, of the
\* Action whose call failed, failed.
C27_Witness ==
    \E e \in ExecIds :
        /\ driver[e].pc = "done"
        /\ driver[e].template = BackJump
        /\ ResultIds(executions[e]) = <<"trigger", "notify", "dispatch_sms">>
        /\ [i \in 1..3 |-> executions[e].step_results[i].status]
                = <<"completed", "completed", "failed">>

-----------------------------------------------------------------------------
(* Claims about suspended executions, checked under SpecSuspend            *)

\* The driving task of e is suspended in the sleep of a Delay step or in the
\* sleep between two attempts of its Action's call.
Suspended(e) ==
    \/ driver[e].pc = "in_delay"
    \/ driver[e].pc = "in_action" /\ im_call[e].pc = "sleeping"

\* The driving task of o has a statement to go on with: it was created or
\* is between two suspensions, or what it is suspended on is over (its
\* sleep has run out) or can be (its handler can return).
Ready(o) ==
    \/ driver[o].pc \in {"spawned", "notify_running", "at_step", "after_step",
                          "after_loop", "notify_completed"}
    \/ driver[o].pc = "in_delay" /\ now >= driver[o].wake
    \/ driver[o].pc = "in_action" /\ im_call[o].pc = "in_handler"
    \/ driver[o].pc = "in_action" /\ im_call[o].pc = "sleeping"
          /\ now >= im_call[o].wake

\* The next statements of the driving task of o, up to its next suspension.
TaskStep(o) ==
    /\ \/ DriverStarts(o)
       \/ DriverEntersLoop(o)
       \/ DriverExecutesStep(o)
       \/ DriverActionResumes(o)
       \/ DriverHandlerEnds(o)
       \/ DriverDelayEnds(o)
       \/ DriverAfterStep(o)
       \/ DriverLeavesLoop(o)
       \/ DriverFinally(o)
    /\ UNCHANGED envvars

\* C28: while the driving task of one execution is suspended in a Delay or
\* in a backoff sleep, the task of any other execution that has a statement
\* to go on with can take it, whatever integration it calls, unless a third
\* task is running at that moment; so it can run on to a terminal status.
C28_SuspensionBlocksOnlyOwner ==
    \A e, o \in ExecIds :
        (/\ e # o
         /\ Suspended(e)
         /\ Ready(o)
         /\ \A x \in ExecIds \ {e, o} : ~Busy(x))
            => ENABLED TaskStep(o)

\* C28 witness: the call of one execution made the two invocations that the
\* flaky handler fails and is in the sleep before its third attempt, which
\* has not run out; meanwhile another execution called the same integration
\* with success and has ended Completed.
C28_Witness ==
    \E e, o \in ExecIds :
        /\ e # o
        /\ driver[e].pc = "in_action"
        /\ im_call[e].pc = "sleeping"
        /\ im_call[e].invoked = FlakyFailures
        /\ now < im_call[e].wake
        /\ handlers[im_call[e].service].kind = "flaky"
        /\ driver[o].pc = "done"
        /\ executions[o].status = "completed"
        /\ Len(action_calls[o]) >= 1
        /\ action_calls[o][1].service = im_call[e].service
        /\ action_calls[o][1].result.success

-----------------------------------------------------------------------------
(* Claims about the fields of executions, checked under SpecSteps          *)

\* C29: in every state an execution that has an error_message is Failed: an
\* execution that is Pending, Running or Completed has none; and so it is
\* for the row of the execution in the database.
C29_ErrorMessageOnlyWhenFailed ==
    \A e \in ExecIds :
        /\ executions[e].status \in {"absent", "pending", "running", "completed", "failed"}
        /\ executions[e].error_message # NoError => executions[e].status = "failed"
        /\ db[e].error_message # NoError => db[e].status = "failed"

\* C29 witness: one execution has ended Failed at a step of unknown type,
\* with that error as its error_message, and another has ended Completed
\* after three steps, with no error_message.
C29_Witness ==
    \E e, o \in ExecIds :
        /\ driver[e].pc = "done" /\ driver[o].pc = "done"
        /\ executions[e].status = "failed"
        /\ executions[e].error_message = [kind |-> "unknown_step_type"]
        /\ executions[o].status = "completed"
        /\ executions[o].error_message = NoError
        /\ Len(executions[o].step_results) = 3

-----------------------------------------------------------------------------
(* Claims about the counters of an integration that several executions     *)
(* call, checked under SpecSuspend                                         *)

\* The calls of the integration manager that the executions made or are
\* making, those of execution e first.
RECURSIVE CallsFrom(_)
CallsFrom(e) ==
    IF e \notin ExecIds THEN <<>>
    ELSE action_calls[e]
            \o (IF Active(im_call[e]) THEN <<im_call[e]>> ELSE <<>>)
            \o CallsFrom(e + 1)

\* The attempts of call f that have succeeded: the last one, if any.
Successes(f) == IF f.pc = "returned" /\ f.result.success THEN 1 ELSE 0

\* The attempts of call f that have failed: those the breaker rejected, and
\* the invocations of the handler that are over and did not succeed.
Failures(f) ==
    f.rejected + f.invoked - (IF f.pc = "in_handler" THEN 1 ELSE 0) - Successes(f)

\* The sum of count(f) over the calls of the list that were made for s on
\* the breaker that is registered under s now.
RECURSIVE Sum(_)
Sum(numbers) == IF numbers = <<>> THEN 0 ELSE Head(numbers) + Sum(Tail(numbers))

SumOver(calls, s, count(_)) ==
    Sum([i \in 1..Len(calls) |->
            IF calls[i].service = s /\ calls[i].breaker = circuit_breakers[s]
            THEN count(calls[i]) ELSE 0])

\* No call for s was under way when s was registered the last time.
RegisteredAtRest(s) ==
    \A i \in 1..Len(CallsFrom(1)) :
        CallsFrom(1)[i].service = s => ~CallsFrom(1)[i].swapped

\* Call f left the handler with this outcome in this step.
HandlerEnded(t, outcome) ==
    /\ im_call[t].pc = "in_handler"
    /\ im_call[t].outcome = outcome
    /\ im_call'[t].pc # "in_handler"

\* C30: when several executions call one integration, no update of a counter
\* is lost.  In every state success_count is the number of attempts for the
\* name that have succeeded and error_count the number that have failed
\* (handler failures plus rejections by the breaker) since it was registered;
\* and every step that ends an invocation of the handler counts it: a failure
\* adds one to error_count and to the failure counter of the call's breaker,
\* a success adds one to success_count and sets the failure counter to 0, so
\* that the failure counter is the number of handler failures since the last
\* handler success.
C30_NoLostCounterUpdate ==
    /\ [](\A s \in Services :
            (Registered(s) /\ RegisteredAtRest(s))
                => /\ integrations[s].success_count
                        = SumOver(CallsFrom(1), s, Successes)
                   /\ integrations[s].error_count
                        = SumOver(CallsFrom(1), s, Failures))
    /\ [][\A t \in ExecIds :
            LET f == im_call[t]
                s == f.service
            IN  /\ HandlerEnded(t, "fail")
                    => /\ integrations'[s].error_count
                            = integrations[s].error_count + 1
                       /\ integrations'[s].success_count
                            = integrations[s].success_count
                       /\ breakers'[f.breaker].failure_count
                            = breakers[f.breaker].failure_count + 1
                /\ HandlerEnded(t, "ok")
                    => /\ integrations'[s].success_count
                            = integrations[s].success_count + 1
                       /\ integrations'[s].error_count
                            = integrations[s].error_count
                       /\ breakers'[f.breaker].failure_count = 0
       ]_vars
    /\ [][(\A t \in ExecIds : im_call'[t] = im_call[t])
            => \A b \in 1..Len(breakers) :
                    breakers'[b].failure_count = breakers[b].failure_count
       ]_vars

\* C30 witness: two executions called twilio, whose handler always fails,
\* during each other's calls; both calls are over, error_count is 6 for the
\* five failed invocations and the one rejection, and the breaker, Open, has
\* counted the five failures.
C30_Witness ==
    /\ \A e \in ExecIds :
            /\ driver[e].pc = "done"
            /\ Len(action_calls[e]) = 1
            /\ action_calls[e][1].service = "twilio"
            /\ ~action_calls[e][1].alone
    /\ handlers["twilio"].kind = "fail"
    /\ integrations["twilio"].error_count = 2 * DefaultMaxAttempts
    /\ integrations["twilio"].success_count = 0
    /\ breakers[circuit_breakers["twilio"]].failure_count = DefaultFailureThreshold
    /\ breakers[circuit_breakers["twilio"]].state = "open"
    /\ \E e \in ExecIds : action_calls[e][1].rejected = 1

-----------------------------------------------------------------------------
(* Claims about Condition steps, terminal states and the breaker under     *)
(* concurrent calls                                                       *)

\* The results of the Condition steps of e: the pairs of a step of e's
\* template of type condition and the result recorded under its id.
ConditionResults(e) ==
    {<<driver[e].template.steps[p], executions[e].step_results[i]>> :
        p \in {q \in 1..Len(driver[e].template.steps) :
                    driver[e].template.steps[q].type = "condition"},
        i \in {j \in 1..Len(executions[e].step_results) :
                    \E q \in 1..Len(driver[e].template.steps) :
                        /\ driver[e].template.steps[q].type = "condition"
                        /\ driver[e].template.steps[q].id
                                = executions[e].step_results[j].step_id}}

\* The text right of the first ">" of the condition is no number.
RightSideNoNumber(condition) ==
    /\ contains(condition, ">")
    /\ float_raises(Str(strip(split(condition, ">")[2])))

\* C31: the result of a Condition step whose condition is "true" is
\* completed with result true, of one whose condition is "false" completed
\* with result false, of one whose condition is any other string without
\* ">" completed with result true; the result of a Condition step whose
\* condition has a ">" and a right side that is no number is failed, and the
\* execution that has left the loop after it is Failed.
C31_ConditionEvaluation ==
    \A e \in ExecIds :
        \A pair \in ConditionResults(e) :
            LET condition == pair[1].config.condition
                r == pair[2]
            IN  pair[1].id = r.step_id =>
                  /\ condition = <<"true">>
                        => r.status = "completed" /\ r.output.result = TRUE
                  /\ condition = <<"false">>
                        => r.status = "completed" /\ r.output.result = FALSE
                  /\ (condition \notin {<<"true">>, <<"false">>}
                            /\ ~contains(condition, ">"))
                        => r.status = "completed" /\ r.output.result = TRUE
                  /\ RightSideNoNumber(condition)
                        => /\ r.status = "failed"
                           /\ driver[e].pc \in {"after_step", "after_loop", "done"}
                           /\ driver[e].pc # "after_step"
                                => executions[e].status = "failed"

\* C31 witness: one execution has ended Completed over a Condition whose
\* string is neither "true" nor "false" and has no ">", which evaluated to
\* true; another has ended Failed at a Condition whose right side is no
\* number.
C31_Witness ==
    \E e, o \in ExecIds :
        /\ driver[e].pc = "done" /\ driver[o].pc = "done"
        /\ driver[e].template = Conditions(<<"always">>)
        /\ executions[e].status = "completed"
        /\ executions[e].step_results[2].step_id = "check"
        /\ executions[e].step_results[2].output.result = TRUE
        /\ driver[o].template = Conditions(<<"5", " ", ">", " ", "high">>)
        /\ executions[o].status = "failed"
        /\ ResultIds(executions[o]) = <<"trigger", "check">>
        /\ executions[o].step_results[2].status = "failed"

\* The state of e that other tasks and the callbacks can see: e's driving
\* task is not in the middle of a stretch that runs without suspending.
Observable(e) == ~Busy(e)

\* C32: an execution whose status is Completed or Failed, in a state that
\* another task or a callback can see (the state a callback is handed with
\* `completed` or `failed` included), has no current_step_id and has its
\* completed_at set.
C32_TerminalStateIsFinal ==
    \A e \in ExecIds :
        (executions[e].status \in {"completed", "failed"} /\ Observable(e))
            => /\ executions[e].current_step_id = "none"
               /\ executions[e].completed_at # None

C34_OpenLeftOnlyThroughHalfOpen ==
    [][breakers[TheBreaker].state = "open"
            => breakers'[TheBreaker].state \in {"open", "half_open"}]_vars

\* C35: in every state of a breaker with failure_threshold >= 1, whatever
\* the interleaving of the calls on it: a Closed breaker has counted fewer
\* failures than its threshold; an Open or HalfOpen breaker has counted at
\* least its threshold and has a last_failure_time.
C35_StateMatchesCounter ==
    LET b == breakers[TheBreaker]
    IN  /\ b.failure_threshold >= 1
        /\ b.state = "closed" => b.failure_count < b.failure_threshold
        /\ b.state \in {"open", "half_open"}
                => /\ b.failure_count >= b.failure_threshold
                   /\ b.last_failure_time # None

\* C35 witness: calls have overlapped, a call that was in flight when the
\* breaker opened has failed after it, and the breaker is now HalfOpen with
\* two calls in flight and more failures counted than its threshold.
C35_Witness ==
    LET b == breakers[TheBreaker]
    IN  /\ overlap
        /\ b.state = "half_open"
        /\ Cardinality(InFlight) = 2
        /\ b.failure_count > b.failure_threshold

\* The positions in the log of e of the invocations of callback c with one
\* of these events.
Invocations(e, c, events) ==
    {n \in 1..Len(notified[e]) :
        notified[e][n].callback = c /\ notified[e][n].event \in events}

\* A callback is invoked with `started` for e in this step.
StartedDelivered(e) ==
    /\ Len(notified'[e]) > Len(notified[e])
    /\ notified'[e][Len(notified'[e])].event = "started"

\* C36: for every execution and every callback, the callback is invoked
\* with `started` before it is invoked with `running`, and with `running`
\* before it is invoked with `completed` or `failed`, however many
\* callbacks there are and whichever of them suspends while it handles
\* `started`; and the execution a callback is handed with `started` has
\* status Pending.
C36_NotificationsInLifecycleOrder ==
    /\ [](\A e \in ExecIds : \A c \in 1..execution_callbacks :
            /\ \A n \in Invocations(e, c, {"running"}) :
                    \E m \in Invocations(e, c, {"started"}) : m < n
            /\ \A n \in Invocations(e, c, {"completed", "failed"}) :
                    \E m \in Invocations(e, c, {"running"}) : m < n)
    /\ [][\A e \in ExecIds :
            StartedDelivered(e) => executions'[e].status = "pending"]_vars

\* C37: an execution that get_execution_status loaded from the database,
\* after it was started and dropped from the index, has the template id
\* its driving task ran, the owner id and the context start_workflow gave
\* it, and the status of its row in the table.
C37_ReloadIsRoundTrip ==
    \A e \in ExecIds :
        (/\ last_call.op = "get_execution_status"
         /\ last_call.id = e
         /\ last_call.result = "found"
         /\ last_call.read)
            => /\ last_call.execution.template_id = driver[e].template.id
               /\ last_call.execution.user_id = UserId
               /\ last_call.execution.context = context_of(TriggerData)
               /\ last_call.execution.status = db[e].status

\* Task t's call of the manager invokes the handler in this step.
InvokesHandler(t) ==
    /\ im_call[t].pc # "in_handler"
    /\ im_call'[t].pc = "in_handler"

\* C38: every invocation of a handler for an integration name goes through
\* the circuit breaker and under the retry policy that are registered under
\* that name when the handler is invoked, also for the later attempts of a
\* call during which the name was registered anew.
C38_InvocationUnderCurrentRegistration ==
    [][\A t \in Tasks :
        InvokesHandler(t) =>
            /\ im_call'[t].breaker = circuit_breakers'[im_call'[t].service]
            /\ im_call'[t].config = retry_configs'[im_call'[t].service]
    ]_vars

\* The frames of the calls of the integration manager that e's Actions
\* made, the one in flight included.
ActionFrames(e) ==
    IF driver[e].pc = "in_action" THEN Append(action_calls[e], im_call[e])
    ELSE action_calls[e]

\* C39: from its start to its end the context of an execution is
\* {trigger_data: the trigger data given to start_workflow}, whatever steps
\* have run; the params of every call of the manager that got to the
\* handler are the step's params resolved against that context, so no
\* placeholder is resolved to the output of an earlier step.
C39_ContextNeverChanges ==
    \A e \in ExecIds :
        executions[e].status # "absent" =>
            /\ executions[e].context
                    = Dict(<< <<"trigger_data">> >>, << TriggerData >>)
            /\ \A k \in {n \in 1..Len(ActionFrames(e)) :
                            ActionFrames(e)[n].pc # "raised"} :
                \E p \in 1..Len(driver[e].template.steps) :
                    LET step == driver[e].template.steps[p]
                    IN  /\ step.type = "action"
                        /\ ActionFrames(e)[k].params
                            = replace_variables(step.config.params,
                                Dict(<< <<"trigger_data">> >>, << TriggerData >>))

\* C39 witness: an execution of Threading has ended Completed; its first
\* Action's output has status "sent", and its second Action, whose params
\* name that output, handed the manager the text of the path instead.
C39_Witness ==
    \E e \in ExecIds :
        /\ driver[e].pc = "done"
        /\ driver[e].template = Threading
        /\ executions[e].status = "completed"
        /\ executions[e].step_results[2].output.status = "sent"
        /\ Len(action_calls[e]) = 2
        /\ action_calls[e][2].params
                = Dict(<< <<"status">> >>,
                       << Str(<<"dispatch_sms", ".", "status">>) >>)

\* Two templates that differ in nothing but the condition strings of their
\* Condition steps.
SameButConditions(a, b) ==
    /\ a.id = b.id
    /\ Len(a.steps) = Len(b.steps)
    /\ \A p \in 1..Len(a.steps) :
          /\ a.steps[p].type = b.steps[p].type
          /\ [a.steps[p] EXCEPT !.config.condition = <<"true">>]
                = [b.steps[p] EXCEPT !.config.condition = <<"true">>]

\* e's driving task has ended and none of its steps failed.
EndedUnfailed(e) ==
    /\ driver[e].pc = "done"
    /\ \A i \in 1..Len(executions[e].step_results) :
          executions[e].step_results[i].status = "completed"

\* C40: a Condition step that evaluates, to true or to false, completes;
\* and two executions whose templates differ only in their condition
\* strings, and in which no step failed, have run the same steps in the same
\* order, whatever their conditions evaluated to.
C40_ConditionResultIgnored ==
    /\ \A e \in ExecIds : \A pair \in ConditionResults(e) :
          (pair[1].id = pair[2].step_id /\ pair[2].output # NoOutput)
                => pair[2].status = "completed"
    /\ \A e, o \in ExecIds :
          (/\ EndedUnfailed(e) /\ EndedUnfailed(o)
           /\ SameButConditions(driver[e].template, driver[o].template))
                => ResultIds(executions[e]) = ResultIds(executions[o])

\* C40 witness: two executions have ended Completed, one over a Condition
\* that evaluated to true and one over a Condition that evaluated to false,
\* and both ran the trigger, the Condition and the step after it.
C40_Witness ==
    \E e, o \in ExecIds :
        /\ EndedUnfailed(e) /\ EndedUnfailed(o)
        /\ driver[e].template = Conditions(<<"5", " ", ">", " ", "3">>)
        /\ driver[o].template = Conditions(<<"3", ">", "5">>)
        /\ executions[e].step_results[2].output.result = TRUE
        /\ executions[o].step_results[2].output.result = FALSE
        /\ ResultIds(executions[e]) = <<"trigger", "check", "notify">>
        /\ ResultIds(executions[o]) = <<"trigger", "check", "notify">>

====
